---- MODULE Spec2Model ----
(***************************************************************************)
(* Model of surya's call-graph builder (src/src/graph.js) and of its       *)
(* import-closure resolver (src/src/utils/importer.js).                    *)
(*                                                                         *)
(* JavaScript strings are TLA+ strings (Len, \o and SubSeq act on them),   *)
(* JavaScript objects used as maps are functions whose DOMAIN is the set   *)
(* of own property names, arrays are sequences.                            *)
(***************************************************************************)
EXTENDS Integers, Sequences, FiniteSets, TLC

(***************************************************************************)
(* Bounds of the model.                                                    *)
(***************************************************************************)
MaxFiles == 3
MaxBases == 2
MaxSeeds == 2
MaxLines == 2

(***************************************************************************)
(* JavaScript string primitives.                                           *)
(***************************************************************************)
Min(a, b) == IF a < b THEN a ELSE b
Max(a, b) == IF a > b THEN a ELSE b

\* The i-th character (1-based) of s.
Ch(s, i) == SubSeq(s, i, i)

\* String.prototype.substring(a, b): 0-based, clamped, arguments swapped
\* when a > b.
Substring(s, a, b) ==
  LET ca == Max(0, Min(a, Len(s)))
      cb == Max(0, Min(b, Len(s)))
  IN  SubSeq(s, Min(ca, cb) + 1, Max(ca, cb))

\* String.prototype.indexOf(t): 0-based position of the first occurrence,
\* -1 when there is none.
IndexOf(s, t) ==
  LET hits == {i \in 0..(Len(s) - Len(t)) : SubSeq(s, i + 1, i + Len(t)) = t}
  IN  IF hits = {} THEN -1 ELSE CHOOSE i \in hits : \A j \in hits : i <= j

Includes(s, t) == IndexOf(s, t) # -1

EndsWith(s, t) ==
  /\ Len(t) <= Len(s)
  /\ SubSeq(s, Len(s) - Len(t) + 1, Len(s)) = t

\* String.prototype.split(sep) for a one-character separator.
RECURSIVE Split(_, _)
Split(s, sep) ==
  LET i == IndexOf(s, sep)
  IN  IF i = -1 THEN <<s>>
      ELSE <<SubSeq(s, 1, i)>> \o Split(SubSeq(s, i + 2, Len(s)), sep)

\* String.prototype.split(/\r?\n/): the text between line ends, a line end
\* being "\n" or "\r\n".
RECURSIVE SplitLines(_)
SplitLines(s) ==
  LET i == IndexOf(s, "\n")
  IN  IF i = -1 THEN <<s>>
      ELSE <<SubSeq(s, 1, IF i > 0 /\ Ch(s, i) = "\r" THEN i - 1 ELSE i)>>
             \o SplitLines(SubSeq(s, i + 2, Len(s)))

\* The replacement text of String.prototype.replace for a string pattern:
\* $$ stands for $, $& for the matched text and $' for the text after the
\* match; a string pattern has no groups, so every other $ stands for
\* itself.  The text before the match is asked for with $ and a grave
\* accent, a character that no string of this module can hold.
RECURSIVE GetSubstitution(_, _, _)
GetSubstitution(matched, after, rep) ==
  IF rep = "" THEN ""
  ELSE IF Len(rep) >= 2 /\ Ch(rep, 1) = "$" /\ Ch(rep, 2) \in {"$", "&", "'"}
    THEN (CASE Ch(rep, 2) = "$" -> "$"
            [] Ch(rep, 2) = "&" -> matched
            [] OTHER -> after)
           \o GetSubstitution(matched, after, SubSeq(rep, 3, Len(rep)))
  ELSE Ch(rep, 1) \o GetSubstitution(matched, after, SubSeq(rep, 2, Len(rep)))

\* String.prototype.replace(pat, rep) with a string pattern and a string
\* replacement: only the first occurrence is replaced.
ReplaceFirst(s, pat, rep) ==
  LET i == IndexOf(s, pat)
  IN  IF i = -1 THEN s
      ELSE SubSeq(s, 1, i)
             \o GetSubstitution(pat, SubSeq(s, i + Len(pat) + 1, Len(s)), rep)
             \o SubSeq(s, i + Len(pat) + 1, Len(s))

\* s.replace(/"/g, ""): every double quote is removed.
RECURSIVE StripQuotes(_)
StripQuotes(s) ==
  IF s = "" THEN ""
  ELSE (IF Ch(s, 1) = "\"" THEN "" ELSE Ch(s, 1))
         \o StripQuotes(SubSeq(s, 2, Len(s)))

\* Array.prototype.join(sep).
RECURSIVE JoinSeq(_, _)
JoinSeq(q, sep) ==
  IF q = <<>> THEN ""
  ELSE IF Len(q) = 1 THEN q[1]
  ELSE q[1] \o sep \o JoinSeq(Tail(q), sep)

(***************************************************************************)
(* Sequences and maps.                                                     *)
(***************************************************************************)
Range(q) == {q[i] : i \in 1..Len(q)}

SeqIncludes(q, x) == \E i \in 1..Len(q) : q[i] = x

RECURSIVE SeqFilter(_, _)
SeqFilter(q, keep) ==
  IF q = <<>> THEN <<>>
  ELSE (IF q[1] \in keep THEN <<q[1]>> ELSE <<>>) \o SeqFilter(Tail(q), keep)

RECURSIVE SeqReverse(_)
SeqReverse(q) ==
  IF q = <<>> THEN <<>> ELSE SeqReverse(Tail(q)) \o <<q[1]>>

\* [...new Set(q)]: first occurrences, in order.
RECURSIVE Unique(_)
Unique(q) ==
  IF q = <<>> THEN <<>>
  ELSE <<q[1]>> \o Unique(SeqFilter(Tail(q), Range(q) \ {q[1]}))

EmptyMap == [x \in {} |-> 0]

\* obj[k] = v for a key other than __proto__: an own property.
Put(m, k, v) == [x \in DOMAIN m \cup {k} |-> IF x = k THEN v ELSE m[x]]

\* obj[k] = v for a string or undefined v: the key __proto__ names the
\* prototype accessor, which ignores a value that is no object.
PutPrimitive(m, k, v) == IF k = "__proto__" THEN m ELSE Put(m, k, v)

\* Object.assign(m, n); a missing source (undefined) is ignored.
Assign(m, n) == [x \in DOMAIN m \cup DOMAIN n |-> IF x \in DOMAIN n THEN n[x] ELSE m[x]]

(***************************************************************************)
(* JavaScript special values.  A missing property reads as undefined; as a *)
(* property key undefined and null are the strings below.                  *)
(***************************************************************************)
undefined == "undefined"
null == "null"

\* rec.f, undefined when rec has no own property f.
Get(rec, f) == IF f \in DOMAIN rec THEN rec[f] ELSE undefined

\* const x = value; In(x)
Let(value, In(_)) == In(value)

(***************************************************************************)
(* JavaScript prototypes.  A property that is no own property is looked    *)
(* up in the prototype: Object.prototype for an object literal, and        *)
(* Array.prototype, then Object.prototype, for an array.  Assigning an     *)
(* object to the key __proto__ replaces the prototype and adds no own      *)
(* property.                                                               *)
(***************************************************************************)
\* The function-valued members of Object.prototype, with their length.
ObjectPrototypeArity ==
  [n \in {"constructor", "hasOwnProperty", "isPrototypeOf", "propertyIsEnumerable",
          "__lookupGetter__", "__lookupSetter__"} |-> 1]
  @@ [n \in {"__defineGetter__", "__defineSetter__"} |-> 2]
  @@ [n \in {"toString", "toLocaleString", "valueOf"} |-> 0]

\* The function-valued members of Array.prototype, with their length.
ArrayPrototypeArity ==
  [n \in {"constructor", "at", "concat", "every", "fill", "filter", "find",
          "findIndex", "findLast", "findLastIndex", "flatMap", "forEach",
          "includes", "indexOf", "join", "lastIndexOf", "map", "push", "reduce",
          "reduceRight", "some", "sort", "toSorted", "unshift"} |-> 1]
  @@ [n \in {"copyWithin", "slice", "splice", "toSpliced", "with"} |-> 2]
  @@ [n \in {"entries", "flat", "keys", "pop", "reverse", "shift", "toLocaleString",
             "toReversed", "toString", "values"} |-> 0]

\* String(f) of a built-in function, as a property key or in a template.
NativeFunction(n) == "function " \o n \o "() { [native code] }"
NativeName(proto, n) ==
  IF n = "constructor" THEN (IF proto = "Array" THEN "Array" ELSE "Object") ELSE n

\* The characters of a string, as iterating over it gives them.
RECURSIVE CharsOf(_)
CharsOf(str) ==
  IF str = "" THEN <<>> ELSE <<Ch(str, 1)>> \o CharsOf(SubSeq(str, 2, Len(str)))

\* String(Object.prototype)
ObjectPrototypeString == "[object Object]"

\* The decimal digits of a natural number.
RECURSIVE DecimalString(_)
DecimalString(n) ==
  IF n < 10 THEN SubSeq("0123456789", n + 1, n + 1)
  ELSE DecimalString(n \div 10) \o SubSeq("0123456789", (n % 10) + 1, (n % 10) + 1)

\* The index an array index key names, -1 for any other key.
IndexOfKey(k, len) ==
  LET hits == {i \in 0..(len - 1) : DecimalString(i) = k}
  IN  IF hits = {} THEN -1 ELSE CHOOSE i \in hits : TRUE

\* obj[k] for a key that is no own property of obj, where obj is an object
\* literal: kind says what the prototype chain gives.
InheritedOfObject(k) ==
  IF k = "__proto__"
    THEN [kind |-> "Object.prototype", string |-> ObjectPrototypeString, arity |-> 0]
  ELSE IF k \in DOMAIN ObjectPrototypeArity
    THEN [kind |-> "function", string |-> NativeFunction(NativeName("Object", k)),
          arity |-> ObjectPrototypeArity[k]]
  ELSE [kind |-> "undefined", string |-> undefined, arity |-> 0]

\* A prototype that was not replaced; a replaced one is <<the object>>.
NoPrototype == <<>>

\* arr[k] of an array for a key that is no index below its length.
InheritedOfArray(k, len) ==
  IF k = "length"
    THEN [kind |-> "number", string |-> DecimalString(len), arity |-> 0]
  ELSE IF k \in DOMAIN ArrayPrototypeArity
    THEN [kind |-> "function", string |-> NativeFunction(NativeName("Array", k)),
          arity |-> ArrayPrototypeArity[k]]
  ELSE IF k = "__proto__"
    THEN [kind |-> "Array.prototype", string |-> "", arity |-> 0]
  ELSE InheritedOfObject(k)

\* table[k] of a table whose properties are arrays.  kind "array": an own
\* property, or under __proto__ the array put in place of the prototype;
\* kind "string": an element of that array, reached by its index; else what
\* the prototype chain gives.
ArrayTableGet(table, prototype, k) ==
  IF k # "__proto__" /\ k \in DOMAIN table
    THEN [kind |-> "array", array |-> table[k], string |-> "", arity |-> 0]
  ELSE IF prototype = NoPrototype
    THEN InheritedOfObject(k) @@ [array |-> <<>>]
  ELSE IF k = "__proto__"
    THEN [kind |-> "array", array |-> prototype[1], string |-> "", arity |-> 0]
  ELSE IF IndexOfKey(k, Len(prototype[1])) >= 0
    THEN [kind |-> "string", array |-> <<>>,
          string |-> prototype[1][IndexOfKey(k, Len(prototype[1])) + 1], arity |-> 0]
  ELSE InheritedOfArray(k, Len(prototype[1])) @@ [array |-> <<>>]

\* table[k] of a table whose properties are objects with string values.
\* kind "object": an own property, or under __proto__ the object put in
\* place of the prototype; kind "string": a property of that object.
ObjectTableGet(table, prototype, k) ==
  IF k # "__proto__" /\ k \in DOMAIN table
    THEN [kind |-> "object", object |-> table[k], string |-> "", arity |-> 0]
  ELSE IF prototype = NoPrototype
    THEN InheritedOfObject(k) @@ [object |-> EmptyMap]
  ELSE IF k = "__proto__"
    THEN [kind |-> "object", object |-> prototype[1], string |-> "", arity |-> 0]
  ELSE IF k \in DOMAIN prototype[1]
    THEN [kind |-> "string", object |-> EmptyMap, string |-> prototype[1][k],
          arity |-> 0]
  ELSE InheritedOfObject(k) @@ [object |-> EmptyMap]

(***************************************************************************)
(* Syntax trees as the external parser produces them (parse with           *)
(* {range: true}).  A tree is the sequence of nodes in the order in which  *)
(* parser.visit enters them, with a node of type "<T>:exit" where visit    *)
(* leaves a node of a type T that has an exit hook.                        *)
(***************************************************************************)
\* A child that is null in the tree (using L for *).
NullNode == [type |-> "null"]
ElementaryTypeName(n) == [type |-> "ElementaryTypeName", name |-> n]
UserDefinedTypeName(n) == [type |-> "UserDefinedTypeName", namePath |-> n]
ArrayTypeName(base) == [type |-> "ArrayTypeName", baseTypeName |-> base]
Mapping(value) == [type |-> "Mapping", valueType |-> value]

ContractDef(n, knd, bases) ==
  [type |-> "ContractDefinition", name |-> n, kind |-> knd, baseContracts |-> bases]
ContractExit == [type |-> "ContractDefinition:exit"]
VariableDecl(n, ty) == [type |-> "VariableDeclaration", name |-> n, typeName |-> ty]
StateVariableDecl(vs) == [type |-> "StateVariableDeclaration", variables |-> vs]
FunctionDef(n) ==
  [type |-> "FunctionDefinition", name |-> n, isConstructor |-> FALSE,
   isFallback |-> FALSE, isReceiveEther |-> FALSE]
ConstructorDef ==
  [type |-> "FunctionDefinition", name |-> null, isConstructor |-> TRUE,
   isFallback |-> FALSE, isReceiveEther |-> FALSE]
FunctionExit == [type |-> "FunctionDefinition:exit"]
ModifierDef(n) == [type |-> "ModifierDefinition", name |-> n]
ModifierExit == [type |-> "ModifierDefinition:exit"]
ModifierInv(n) == [type |-> "ModifierInvocation", name |-> n]
CustomErrorDef(n) == [type |-> "CustomErrorDefinition", name |-> n]
EventDef(n) == [type |-> "EventDefinition", name |-> n]
StructDef(n) == [type |-> "StructDefinition", name |-> n]
UsingFor(lib, ty) == [type |-> "UsingForDeclaration", libraryName |-> lib, typeName |-> ty]
\* The parameters of a declaration as a node of their own, with one node per
\* parameter, in the trees of the parser versions that build them.
ParameterList(ps) == [type |-> "ParameterList", parameters |-> ps]
Parameter(n, ty) == [type |-> "Parameter", name |-> n, typeName |-> ty]

\* range of the first occurrence of the token tok in text: [first, last]
\* character offsets, as parse(..., {range: true}) reports them.
RangeOf(text, tok) == <<IndexOf(text, tok), IndexOf(text, tok) + Len(tok) - 1>>

Identifier(n) == [type |-> "Identifier", name |-> n]
StringLiteralAt(tok, text) == [type |-> "StringLiteral", range |-> RangeOf(text, tok)]
NumberLiteral(n) == [type |-> "NumberLiteral", number |-> n]
MemberAccess(obj, member) ==
  [type |-> "MemberAccess", expression |-> obj, memberName |-> member]
TypeNameExpression(n) ==
  [type |-> "TypeNameExpression", typeName |-> ElementaryTypeName(n)]
FunctionCall(expr, args) ==
  [type |-> "FunctionCall", expression |-> expr, arguments |-> args]

(***************************************************************************)
(* The source files of the model.                                          *)
(***************************************************************************)
TextA == "contract A { function f() public {} function h() public { f(); } }"
AstA ==
  << ContractDef("A", "contract", <<>>),
       FunctionDef("f"), FunctionExit,
       FunctionDef("h"),
         FunctionCall(Identifier("f"), <<>>),
       FunctionExit,
     ContractExit >>

TextB == "contract B is A { function f() public {} function foo() public {} }"
AstB ==
  << ContractDef("B", "contract", <<"A">>),
       FunctionDef("f"), FunctionExit,
       FunctionDef("foo"), FunctionExit,
     ContractExit >>

TextC == "contract C is B { function g() public { foo(); super.f(); } }"
AstC ==
  << ContractDef("C", "contract", <<"B">>),
       FunctionDef("g"),
         FunctionCall(Identifier("foo"), <<>>),
         FunctionCall(MemberAccess(Identifier("super"), "f"), <<>>),
       FunctionExit,
     ContractExit >>

\* A, B and C in one file, bases first.
TextABC == TextA \o " " \o TextB \o " " \o TextC
AstABC == AstA \o AstB \o AstC

\* The same contracts in one file, derived contracts first.
TextCBA == TextC \o " " \o TextB \o " " \o TextA
AstCBA == AstC \o AstB \o AstA

TextToken ==
  "library SafeMath { function add(uint256 a, uint256 b) internal {} } "
  \o "contract Token { using SafeMath for uint256; "
  \o "function t(uint256 a, uint b) public { a.add(b); b.add(a); } }"
AstToken ==
  << ContractDef("SafeMath", "library", <<>>),
       FunctionDef("add"),
         VariableDecl("a", ElementaryTypeName("uint256")),
         VariableDecl("b", ElementaryTypeName("uint256")),
       FunctionExit,
     ContractExit,
     ContractDef("Token", "contract", <<>>),
       UsingFor("SafeMath", ElementaryTypeName("uint256")),
       FunctionDef("t"),
         VariableDecl("a", ElementaryTypeName("uint256")),
         VariableDecl("b", ElementaryTypeName("uint")),
         FunctionCall(MemberAccess(Identifier("a"), "add"), <<Identifier("b")>>),
         FunctionCall(MemberAccess(Identifier("b"), "add"), <<Identifier("a")>>),
       FunctionExit,
     ContractExit >>

TextW ==
  "contract W { V x; modifier m() { _; } function w(address y) public m { "
  \o "address(x).call(\"withdraw()\"); address(y).call(\"w()\"); "
  \o "address(0).call(); } }"
AstW ==
  << ContractDef("W", "contract", <<>>),
       StateVariableDecl(<<VariableDecl("x", UserDefinedTypeName("V"))>>),
         VariableDecl("x", UserDefinedTypeName("V")),
       ModifierDef("m"), ModifierExit,
       FunctionDef("w"),
         VariableDecl("y", ElementaryTypeName("address")),
         ModifierInv("m"),
         FunctionCall(MemberAccess(FunctionCall(TypeNameExpression("address"),
                                     <<Identifier("x")>>), "call"),
                      <<StringLiteralAt("\"withdraw()\"", TextW)>>),
         FunctionCall(TypeNameExpression("address"), <<Identifier("x")>>),
         FunctionCall(MemberAccess(FunctionCall(TypeNameExpression("address"),
                                     <<Identifier("y")>>), "call"),
                      <<StringLiteralAt("\"w()\"", TextW)>>),
         FunctionCall(TypeNameExpression("address"), <<Identifier("y")>>),
         FunctionCall(MemberAccess(FunctionCall(TypeNameExpression("address"),
                                     <<NumberLiteral("0")>>), "call"),
                      <<>>),
         FunctionCall(TypeNameExpression("address"), <<NumberLiteral("0")>>),
       FunctionExit,
     ContractExit >>

\* A state variable, a modifier parameter and a function parameter; the
\* function parameter has the name of the state variable, and the function
\* calls through super a function its own contract declares.
TextM ==
  "contract M is A { V x; function f() public {} modifier m(U q) { _; } "
  \o "function w(U x) public { x.ping(); q.pong(); super.f(); super.zz(); } }"
AstM ==
  << ContractDef("M", "contract", <<"A">>),
       StateVariableDecl(<<VariableDecl("x", UserDefinedTypeName("V"))>>),
         VariableDecl("x", UserDefinedTypeName("V")),
       FunctionDef("f"), FunctionExit,
       ModifierDef("m"),
         VariableDecl("q", UserDefinedTypeName("U")),
       ModifierExit,
       FunctionDef("w"),
         VariableDecl("x", UserDefinedTypeName("U")),
         FunctionCall(MemberAccess(Identifier("x"), "ping"), <<>>),
         FunctionCall(MemberAccess(Identifier("q"), "pong"), <<>>),
         FunctionCall(MemberAccess(Identifier("super"), "f"), <<>>),
         FunctionCall(MemberAccess(Identifier("super"), "zz"), <<>>),
       FunctionExit,
     ContractExit >>

\* File-level declarations (contract 0_global) around a contract.
TextG ==
  "error Err(); struct S { uint v; } contract K { event Ev(); } "
  \o "function gf() pure { } using SafeMath for *;"
AstG ==
  << CustomErrorDef("Err"),
     StructDef("S"),
       VariableDecl("v", ElementaryTypeName("uint")),
     ContractDef("K", "contract", <<>>),
       EventDef("Ev"),
     ContractExit,
     FunctionDef("gf"), FunctionExit,
     UsingFor("SafeMath", NullNode) >>

\* Names that meet members of Object.prototype: a base contract valueOf that
\* no file declares, a state variable and a parameter __proto__.
TextV ==
  "contract T is valueOf { U __proto__; function f(uint __proto__) public { "
  \o "__proto__.ping(); valueOf.pong(); super.g(); } }"
AstV ==
  << ContractDef("T", "contract", <<"valueOf">>),
       StateVariableDecl(<<VariableDecl("__proto__", UserDefinedTypeName("U"))>>),
         VariableDecl("__proto__", UserDefinedTypeName("U")),
       FunctionDef("f"),
         VariableDecl("__proto__", ElementaryTypeName("uint")),
         FunctionCall(MemberAccess(Identifier("__proto__"), "ping"), <<>>),
         FunctionCall(MemberAccess(Identifier("valueOf"), "pong"), <<>>),
         FunctionCall(MemberAccess(Identifier("super"), "g"), <<>>),
       FunctionExit,
     ContractExit >>

\* A contract named __proto__ and a contract derived from it.
TextP ==
  "contract __proto__ { U x; event E(); function f() public {} } "
  \o "contract D is __proto__ { function d() public { x.ping(); super.f(); } }"
AstP ==
  << ContractDef("__proto__", "contract", <<>>),
       StateVariableDecl(<<VariableDecl("x", UserDefinedTypeName("U"))>>),
         VariableDecl("x", UserDefinedTypeName("U")),
       EventDef("E"),
       FunctionDef("f"), FunctionExit,
     ContractExit,
     ContractDef("D", "contract", <<"__proto__">>),
       FunctionDef("d"),
         FunctionCall(MemberAccess(Identifier("x"), "ping"), <<>>),
         FunctionCall(MemberAccess(Identifier("super"), "f"), <<>>),
       FunctionExit,
     ContractExit >>

\* A using-declaration for a type named as a member of Object.prototype.
TextU == "library L { } contract R { using L for valueOf; function r() public {} }"
AstU ==
  << ContractDef("L", "library", <<>>),
     ContractExit,
     ContractDef("R", "contract", <<>>),
       UsingFor("L", UserDefinedTypeName("valueOf")),
       FunctionDef("r"), FunctionExit,
     ContractExit >>

\* A contract named hasOwnProperty.
TextH == "contract hasOwnProperty { constructor() m() public { g(); } }"
AstH ==
  << ContractDef("hasOwnProperty", "contract", <<>>),
       ConstructorDef,
         ModifierInv("m"),
         FunctionCall(Identifier("g"), <<>>),
       FunctionExit,
     ContractExit >>

\* A tree with ParameterList nodes: a user-defined parameter, an elementary
\* one, one without name, which ends the loop, and one after it.
TextL ==
  "contract Q { event Ev(U e); function p(U a, uint b, bytes, V c) public { "
  \o "a.ping(); c.pong(); } }"
AstL ==
  << ContractDef("Q", "contract", <<>>),
       EventDef("Ev"),
         ParameterList(<<Parameter("e", UserDefinedTypeName("U"))>>),
       FunctionDef("p"),
         ParameterList(<<Parameter("a", UserDefinedTypeName("U")),
                         Parameter("b", ElementaryTypeName("uint")),
                         Parameter(null, ElementaryTypeName("bytes")),
                         Parameter("c", UserDefinedTypeName("V"))>>),
         FunctionCall(MemberAccess(Identifier("a"), "ping"), <<>>),
         FunctionCall(MemberAccess(Identifier("c"), "pong"), <<>>),
       FunctionExit,
     ContractExit >>

\* The file system seen by graph(): a path is a source file or a directory.
SourcePaths == {"A.sol", "B.sol", "C.sol", "ABC.sol", "CBA.sol", "Token.sol", "W.sol", "G.sol",
                "M.sol", "V.sol", "P.sol", "H.sol", "L.sol", "U.sol"}
DirPaths == {"contracts"}

SourceText(file) ==
  CASE file = "A.sol" -> TextA
    [] file = "B.sol" -> TextB
    [] file = "C.sol" -> TextC
    [] file = "ABC.sol" -> TextABC
    [] file = "CBA.sol" -> TextCBA
    [] file = "Token.sol" -> TextToken
    [] file = "W.sol" -> TextW
    [] file = "G.sol" -> TextG
    [] file = "M.sol" -> TextM
    [] file = "V.sol" -> TextV
    [] file = "P.sol" -> TextP
    [] file = "H.sol" -> TextH
    [] file = "L.sol" -> TextL
    [] file = "U.sol" -> TextU

\* parser.parse(content, {range: true})
Parse(file) ==
  CASE file = "A.sol" -> AstA
    [] file = "B.sol" -> AstB
    [] file = "C.sol" -> AstC
    [] file = "ABC.sol" -> AstABC
    [] file = "CBA.sol" -> AstCBA
    [] file = "Token.sol" -> AstToken
    [] file = "W.sol" -> AstW
    [] file = "G.sol" -> AstG
    [] file = "M.sol" -> AstM
    [] file = "V.sol" -> AstV
    [] file = "P.sol" -> AstP
    [] file = "H.sol" -> AstH
    [] file = "L.sol" -> AstL
    [] file = "U.sol" -> AstU


(***************************************************************************)
(* State of graph(files, options).                                         *)
(***************************************************************************)
VARIABLES
  pc,                    \* position in graph()
  files,                 \* the files argument
  options,               \* the options argument
  fi,                    \* index of the current element of the running loop
  ev,                    \* index of the node the running visit is at
  content,
  fileASTs,
  userDefinedStateVars,
  stateVars,
  dependencies,
  functionsPerContract,
  eventsPerContract,
  structsPerContract,
  contractUsingFor,
  contractNames,
  customErrorNames,
  prototypes,            \* per table whose prototype was replaced, the object put in its place
  contractName,
  cluster,
  clusters,              \* digraph: ids of the clusters
  nodes,                 \* digraph: <<id of the owning graph, node id>>
  edges,                 \* digraph: the edges, in order of creation
  callingScope,
  userDefinedLocalVars,
  localVars,
  tempUserDefinedStateVars,
  tempStateVars,
  eventDefinitions,
  stderr,                \* lines written with console.error
  exception,             \* what graph() threw: the error's name and the line that threw
  lastCall               \* history: outcome of the last FunctionCall handler

graphVars ==
  << pc, files, options, fi, ev, content, fileASTs, userDefinedStateVars,
     stateVars, dependencies, functionsPerContract, eventsPerContract,
     structsPerContract, contractUsingFor, contractNames, customErrorNames,
     prototypes, contractName, cluster, clusters, nodes, edges, callingScope,
     userDefinedLocalVars, localVars, tempUserDefinedStateVars, tempStateVars,
     eventDefinitions, stderr, exception, lastCall >>

tableVars ==
  << userDefinedStateVars, stateVars, dependencies, functionsPerContract,
     eventsPerContract, structsPerContract, contractUsingFor, contractNames,
     customErrorNames, prototypes >>

digraphVars == << clusters, nodes, edges >>

scopeVars ==
  << callingScope, userDefinedLocalVars, localVars, tempUserDefinedStateVars,
     tempStateVars, eventDefinitions >>

NoException == [name |-> "", line |-> 0]

\* throw of an error of the given name by the given line of graph.js.
Throw(errorName, atLine) ==
  /\ pc' = "error"
  /\ exception' = [name |-> errorName, line |-> atLine]

NoCall == [file |-> "", node |-> 0, edge |-> FALSE, from |-> "", to |-> "",
           contract |-> "", name |-> ""]

\* The inputs of graph(): a list of paths and the option flags.
RECURSIVE SeqsUpTo(_, _)
SeqsUpTo(S, n) ==
  IF n = 0 THEN {<<>>}
  ELSE LET shorter == SeqsUpTo(S, n - 1)
       IN  shorter \cup {Append(q, x) : q \in shorter, x \in S}

GraphInputs == SeqsUpTo(SourcePaths \cup DirPaths, MaxFiles)

GraphOptions == [libraries : BOOLEAN, enableModifierEdges : BOOLEAN]

InitGraph ==
  /\ pc = "graph"
  /\ files \in GraphInputs
  /\ options \in GraphOptions
  /\ fi = 0
  /\ ev = 0
  /\ content = undefined
  /\ fileASTs = <<>>
  /\ userDefinedStateVars = EmptyMap
  /\ stateVars = EmptyMap
  /\ dependencies = EmptyMap
  /\ functionsPerContract = EmptyMap
  /\ eventsPerContract = EmptyMap
  /\ structsPerContract = EmptyMap
  /\ contractUsingFor = EmptyMap
  /\ contractNames = <<>>
  /\ customErrorNames = <<>>
  /\ prototypes = EmptyMap
  /\ contractName = undefined
  /\ cluster = undefined
  /\ clusters = {}
  /\ nodes = {}
  /\ edges = <<>>
  /\ callingScope = undefined
  /\ userDefinedLocalVars = EmptyMap
  /\ localVars = EmptyMap
  /\ tempUserDefinedStateVars = EmptyMap
  /\ tempStateVars = EmptyMap
  /\ eventDefinitions = <<>>
  /\ stderr = <<>>
  /\ exception = NoException
  /\ lastCall = NoCall

(***************************************************************************)
(* Traversal: parser.visit(ast, handlers) calls the handlers of a pass on  *)
(* the nodes of the tree whose type has a handler, in order.               *)
(***************************************************************************)
Handled(pass) ==
  CASE pass = "collect" ->
         {"ContractDefinition", "ContractDefinition:exit", "StateVariableDeclaration",
          "FunctionDefinition", "CustomErrorDefinition", "EventDefinition",
          "StructDefinition", "UsingForDeclaration"}
    [] pass = "register" ->
         {"ContractDefinition", "ContractDefinition:exit", "FunctionDefinition",
          "ModifierDefinition"}
    [] pass = "resolve" ->
         {"ContractDefinition", "EventDefinition", "ContractDefinition:exit",
          "FunctionDefinition", "FunctionDefinition:exit", "ModifierDefinition",
          "ModifierDefinition:exit", "ParameterList", "VariableDeclaration",
          "ModifierInvocation", "FunctionCall"}

\* Index of the first node after i that the pass handles, 0 when none is left.
NextNode(pass, ast, i) ==
  LET later == {j \in (i + 1)..Len(ast) : ast[j].type \in Handled(pass)}
  IN  IF later = {} THEN 0 ELSE CHOOSE j \in later : \A k \in later : j <= k

\* The tree and the node the running visit is at.  The first loop visits the
\* tree it has just pushed, the second loop visits fileASTs[fi].
CurrentAst ==
  IF pc = "collect" THEN Parse(fileASTs[Len(fileASTs)]) ELSE Parse(fileASTs[fi])
Node == CurrentAst[ev]
At(pass, nodeType) ==
  /\ pc = pass
  /\ ev \in 1..Len(CurrentAst)
  /\ Node.type = nodeType

\* Control after node i of the visit of ast: the next handled node of the
\* same visit or, at the end of the tree, what follows the visit.
StepFrom(pass, ast, i) ==
  LET j == NextNode(pass, ast, i)
  IN  IF j # 0 THEN pc' = pass /\ ev' = j /\ fi' = fi
      ELSE CASE pass = "collect" -> pc' = "read" /\ ev' = 0 /\ fi' = fi + 1
             [] pass = "register" -> pc' = "between" /\ ev' = 0 /\ fi' = fi
             [] pass = "resolve" -> pc' = "loop" /\ ev' = 0 /\ fi' = fi + 1

Continue(pass) == StepFrom(pass, CurrentAst, ev)

(***************************************************************************)
(* parserHelpers: predicates on declarations.                              *)
(***************************************************************************)
isUserDefinedDeclaration(node) ==
  "typeName" \in DOMAIN node /\ node.typeName.type = "UserDefinedTypeName"
isElementaryTypeDeclaration(node) ==
  "typeName" \in DOMAIN node /\ node.typeName.type = "ElementaryTypeName"
isArrayDeclaration(node) ==
  "typeName" \in DOMAIN node /\ node.typeName.type = "ArrayTypeName"
isMappingDeclaration(node) ==
  "typeName" \in DOMAIN node /\ node.typeName.type = "Mapping"

(***************************************************************************)
(* graph(): entry, and the loop that reads, parses and collects.           *)
(***************************************************************************)
\* A JavaScript Set, kept in insertion order.
SetAdd(q, x) == IF SeqIncludes(q, x) THEN q ELSE Append(q, x)

\* digraph.getCluster / digraph.addCluster take the id "cluster<name>",
\* quotes included.
ClusterId(n) == "\"cluster" \o n \o "\""

\* Lines 16-53: the empty list is refused, the list is made unique, the
\* tables that persist over the loops are created.
GraphStart ==
  /\ pc = "graph"
  /\ IF Len(files) = 0
     THEN /\ Throw("Error", 17)
          /\ UNCHANGED << files, fi, tableVars >>
     ELSE /\ pc' = "read"
          /\ UNCHANGED << prototypes, exception >>
          /\ files' = Unique(files)
          /\ fi' = 1
          /\ userDefinedStateVars' = EmptyMap
          /\ stateVars' = EmptyMap
          /\ dependencies' = EmptyMap
          /\ functionsPerContract' = [c \in {"0_global"} |-> <<>>]
          /\ eventsPerContract' = [c \in {"0_global"} |-> <<>>]
          /\ structsPerContract' = [c \in {"0_global"} |-> <<>>]
          /\ contractUsingFor' = EmptyMap
          /\ contractNames' = <<"0_global">>
          /\ customErrorNames' = <<>>
  /\ UNCHANGED << options, ev, content, fileASTs, contractName, cluster,
                  digraphVars, scopeVars, stderr, lastCall >>

\* Lines 56-94, a readable file: read, parse, push the tree, initialise the
\* 0_global entries, start the visit.
ReadFile ==
  /\ pc = "read"
  /\ fi <= Len(files)
  /\ files[fi] \in SourcePaths
  /\ content' = SourceText(files[fi])
  /\ fileASTs' = Append(fileASTs, files[fi])
  /\ contractName' = "0_global"
  /\ cluster' = null
  /\ userDefinedStateVars' = Put(userDefinedStateVars, "0_global", EmptyMap)
  /\ stateVars' = Put(stateVars, "0_global", EmptyMap)
  /\ functionsPerContract' = Put(functionsPerContract, "0_global", <<>>)
  /\ eventsPerContract' = Put(eventsPerContract, "0_global", <<>>)
  /\ structsPerContract' = Put(structsPerContract, "0_global", <<>>)
  /\ contractUsingFor' = Put(contractUsingFor, "0_global", EmptyMap)
  /\ StepFrom("collect", Parse(files[fi]), 0)
  /\ UNCHANGED << files, options, dependencies, contractNames, customErrorNames,
                  prototypes, digraphVars, scopeVars, stderr, exception, lastCall >>

\* Lines 58-63, a directory: readFileSync fails with EISDIR, the entry is
\* reported and the loop continues with the next entry.
SkipDirectory ==
  /\ pc = "read"
  /\ fi <= Len(files)
  /\ files[fi] \in DirPaths
  /\ stderr' = Append(stderr, "Skipping directory " \o files[fi])
  /\ fi' = fi + 1
  /\ UNCHANGED << pc, files, options, ev, content, fileASTs, tableVars,
                  contractName, cluster, digraphVars, scopeVars, exception, lastCall >>

\* The base names of a contract without 0_global in front.
DependenciesOfNoGlobal(baseContracts) == baseContracts

\* Lines 141-145: the base names of a contract, 0_global put in front.
DependenciesOf(baseContracts) == <<"0_global">> \o baseContracts

\* The tables of lines 44-51 that are keyed by contract name.
ObjectTables == {"userDefinedStateVars", "stateVars", "contractUsingFor"}
ArrayTables ==
  {"dependencies", "functionsPerContract", "eventsPerContract", "structsPerContract"}

\* table[c] = v of lines 108-113 and 141, v an object or an array: an own
\* property of the table, but for c = __proto__ the new prototype of the
\* table and no own property.
PutObject(table, c, v) == IF c = "__proto__" THEN table ELSE Put(table, c, v)

\* table[c] where the collect visit has assigned table[c]: the own property,
\* for c = __proto__ the prototype put in place by that assignment.
EntryOf(table, tableName, c) ==
  IF c = "__proto__" THEN prototypes[tableName] ELSE table[c]

\* The prototypes after table[c] = v.
PrototypeAfter(tableName, c, v) ==
  IF c = "__proto__" THEN Put(prototypes, tableName, v) ELSE prototypes

\* Lines 97-146.
CollectContractDefinition ==
  /\ At("collect", "ContractDefinition")
  /\ contractName' = Node.name
  /\ contractNames' = Append(contractNames, Node.name)
  /\ userDefinedStateVars' = PutObject(userDefinedStateVars, Node.name, EmptyMap)
  /\ stateVars' = PutObject(stateVars, Node.name, EmptyMap)
  /\ functionsPerContract' = PutObject(functionsPerContract, Node.name, <<>>)
  /\ eventsPerContract' = PutObject(eventsPerContract, Node.name, <<>>)
  /\ structsPerContract' = PutObject(structsPerContract, Node.name, <<>>)
  /\ contractUsingFor' = PutObject(contractUsingFor, Node.name, EmptyMap)
  /\ cluster' = ClusterId(Node.name)
  /\ clusters' = clusters \cup {ClusterId(Node.name)}
  /\ dependencies' =
       PutObject(dependencies, Node.name, DependenciesOf(Node.baseContracts))
  /\ prototypes' =
       IF Node.name = "__proto__"
       THEN [t \in ObjectTables \cup ArrayTables |->
               IF t = "dependencies" THEN DependenciesOf(Node.baseContracts)
               ELSE IF t \in ArrayTables THEN <<>> ELSE EmptyMap]
       ELSE prototypes
  /\ Continue("collect")
  /\ UNCHANGED << files, options, content, fileASTs, customErrorNames, nodes,
                  edges, scopeVars, stderr, exception, lastCall >>

\* Lines 148-150.
CollectContractExit ==
  /\ At("collect", "ContractDefinition:exit")
  /\ contractName' = "0_global"
  /\ Continue("collect")
  /\ UNCHANGED << files, options, content, fileASTs, tableVars, cluster,
                  digraphVars, scopeVars, stderr, exception, lastCall >>

\* Lines 153-163: the table entries of contract c after the variables vs.
RECURSIVE UserDefinedVarsOf(_, _)
UserDefinedVarsOf(vs, tbl) ==
  IF vs = <<>> THEN tbl
  ELSE UserDefinedVarsOf(Tail(vs),
         IF isUserDefinedDeclaration(vs[1])
         THEN PutPrimitive(tbl, vs[1].name, vs[1].typeName.namePath)
         ELSE tbl)

RECURSIVE ElementaryVarsOf(_, _)
ElementaryVarsOf(vs, tbl) ==
  IF vs = <<>> THEN tbl
  ELSE ElementaryVarsOf(Tail(vs),
         IF isUserDefinedDeclaration(vs[1]) THEN tbl
         ELSE IF isElementaryTypeDeclaration(vs[1])
           THEN PutPrimitive(tbl, vs[1].name, vs[1].typeName.name)
         ELSE IF isArrayDeclaration(vs[1])
           THEN PutPrimitive(tbl, vs[1].name, Get(vs[1].typeName.baseTypeName, "namePath"))
         ELSE IF isMappingDeclaration(vs[1])
           THEN PutPrimitive(tbl, vs[1].name, Get(vs[1].typeName.valueType, "name"))
         ELSE tbl)

\* Lines 152-164.
CollectStateVariableDeclaration ==
  /\ At("collect", "StateVariableDeclaration")
  /\ LET userDefined ==
           UserDefinedVarsOf(Node.variables,
             EntryOf(userDefinedStateVars, "userDefinedStateVars", contractName))
         elementary ==
           ElementaryVarsOf(Node.variables,
             EntryOf(stateVars, "stateVars", contractName))
     IN  /\ userDefinedStateVars' = PutObject(userDefinedStateVars, contractName, userDefined)
         /\ stateVars' = PutObject(stateVars, contractName, elementary)
         /\ prototypes' =
              IF contractName = "__proto__"
              THEN Put(Put(prototypes, "userDefinedStateVars", userDefined),
                       "stateVars", elementary)
              ELSE prototypes
  /\ Continue("collect")
  /\ UNCHANGED << files, options, content, fileASTs, dependencies,
                  functionsPerContract, eventsPerContract, structsPerContract,
                  contractUsingFor, contractNames, customErrorNames, contractName,
                  cluster, digraphVars, scopeVars, stderr, exception, lastCall >>

\* Lines 166-168.
CollectFunctionDefinition ==
  /\ At("collect", "FunctionDefinition")
  /\ LET pushed == Append(EntryOf(functionsPerContract, "functionsPerContract",
                                  contractName), Node.name)
     IN  /\ functionsPerContract' = PutObject(functionsPerContract, contractName, pushed)
         /\ prototypes' = PrototypeAfter("functionsPerContract", contractName, pushed)
  /\ Continue("collect")
  /\ UNCHANGED << files, options, content, fileASTs, userDefinedStateVars,
                  stateVars, dependencies, eventsPerContract, structsPerContract,
                  contractUsingFor, contractNames, customErrorNames, contractName,
                  cluster, digraphVars, scopeVars, stderr, exception, lastCall >>

\* Lines 170-173.
CollectCustomErrorDefinition ==
  /\ At("collect", "CustomErrorDefinition")
  /\ LET pushed == Append(EntryOf(functionsPerContract, "functionsPerContract",
                                  contractName), Node.name)
     IN  /\ functionsPerContract' = PutObject(functionsPerContract, contractName, pushed)
         /\ prototypes' = PrototypeAfter("functionsPerContract", contractName, pushed)
  /\ customErrorNames' = Append(customErrorNames, Node.name)
  /\ Continue("collect")
  /\ UNCHANGED << files, options, content, fileASTs, userDefinedStateVars,
                  stateVars, dependencies, eventsPerContract, structsPerContract,
                  contractUsingFor, contractNames, contractName,
                  cluster, digraphVars, scopeVars, stderr, exception, lastCall >>

\* Lines 175-177.
CollectEventDefinition ==
  /\ At("collect", "EventDefinition")
  /\ LET pushed == Append(EntryOf(eventsPerContract, "eventsPerContract",
                                  contractName), Node.name)
     IN  /\ eventsPerContract' = PutObject(eventsPerContract, contractName, pushed)
         /\ prototypes' = PrototypeAfter("eventsPerContract", contractName, pushed)
  /\ Continue("collect")
  /\ UNCHANGED << files, options, content, fileASTs, userDefinedStateVars,
                  stateVars, dependencies, functionsPerContract, structsPerContract,
                  contractUsingFor, contractNames, customErrorNames, contractName,
                  cluster, digraphVars, scopeVars, stderr, exception, lastCall >>

\* Lines 179-181.
CollectStructDefinition ==
  /\ At("collect", "StructDefinition")
  /\ LET pushed == Append(EntryOf(structsPerContract, "structsPerContract",
                                  contractName), Node.name)
     IN  /\ structsPerContract' = PutObject(structsPerContract, contractName, pushed)
         /\ prototypes' = PrototypeAfter("structsPerContract", contractName, pushed)
  /\ Continue("collect")
  /\ UNCHANGED << files, options, content, fileASTs, userDefinedStateVars,
                  stateVars, dependencies, functionsPerContract, eventsPerContract,
                  contractUsingFor, contractNames, customErrorNames, contractName,
                  cluster, digraphVars, scopeVars, stderr, exception, lastCall >>

\* Lines 184-190: the type a using-declaration targets, "*" for all types.
UsingForTypeName(node) ==
  IF node.typeName # NullNode /\ "name" \in DOMAIN node.typeName
    THEN node.typeName.name
  ELSE IF node.typeName # NullNode /\ "namePath" \in DOMAIN node.typeName
    THEN node.typeName.namePath
  ELSE "*"

\* Lines 183-196.  Line 192 finds a Set only under an own key; under the
\* name of a member of Object.prototype it finds that member, makes no Set,
\* and line 195 calls an add the member does not have.
CollectUsingForDeclaration ==
  /\ At("collect", "UsingForDeclaration")
  /\ LET typeNameName == UsingForTypeName(Node)
         perType == EntryOf(contractUsingFor, "contractUsingFor", contractName)
         own == typeNameName # "__proto__" /\ typeNameName \in DOMAIN perType
         libs == IF own THEN perType[typeNameName] ELSE <<>>
         added == Put(perType, typeNameName, SetAdd(libs, Node.libraryName))
     IN  IF ~own /\ InheritedOfObject(typeNameName).kind # "undefined"
         THEN /\ Throw("TypeError", 195)
              /\ UNCHANGED << fi, ev, contractUsingFor, prototypes >>
         ELSE /\ contractUsingFor' = PutObject(contractUsingFor, contractName, added)
              /\ prototypes' = PrototypeAfter("contractUsingFor", contractName, added)
              /\ Continue("collect")
              /\ UNCHANGED exception
  /\ UNCHANGED << files, options, content, fileASTs, userDefinedStateVars,
                  stateVars, dependencies, functionsPerContract, eventsPerContract,
                  structsPerContract, contractNames, customErrorNames, contractName,
                  cluster, digraphVars, scopeVars, stderr, lastCall >>


(***************************************************************************)
(* c3-linearization: linearize(graph, {reverse: true}).                    *)
(***************************************************************************)
\* seq.splice(seq.indexOf(x), 1): the first occurrence of x is removed.
RECURSIVE RemoveFirst(_, _)
RemoveFirst(q, x) ==
  IF q = <<>> THEN <<>>
  ELSE IF q[1] = x THEN Tail(q)
  ELSE <<q[1]>> \o RemoveFirst(Tail(q), x)

RECURSIVE NonEmpty(_)
NonEmpty(qs) ==
  IF qs = <<>> THEN <<>>
  ELSE (IF qs[1] = <<>> THEN <<>> ELSE <<qs[1]>>) \o NonEmpty(Tail(qs))

\* merge(sequences): repeatedly takes the head of the first sequence whose
\* head is in the tail of no other sequence; fails when there is none.
RECURSIVE merge(_)
merge(sequences) ==
  IF sequences = <<>> THEN [ok |-> TRUE, order |-> <<>>]
  ELSE
    LET good == {i \in 1..Len(sequences) :
                   \A j \in 1..Len(sequences) :
                     j # i => ~SeqIncludes(Tail(sequences[j]), sequences[i][1])}
    IN  IF good = {} THEN [ok |-> FALSE, order |-> <<>>]
        ELSE
          LET i == CHOOSE k \in good : \A l \in good : k <= l
              head == sequences[i][1]
              rest == merge(NonEmpty([j \in 1..Len(sequences) |->
                                        RemoveFirst(sequences[j], head)]))
          IN  [ok |-> rest.ok, order |-> <<head>> \o rest.order]

\* The state of a run of linearize: results (own properties), the prototype
\* of results when an assignment to results.__proto__ has replaced it, the
\* Set visiting, and the name of the error thrown, "" when none.
NoResults ==
  [results |-> EmptyMap, prototype |-> NoPrototype, visiting |-> {}, error |-> ""]

\* results[head] = res
SetResult(st, head, res) ==
  IF head = "__proto__" THEN [st EXCEPT !.prototype = <<res>>]
  ELSE [st EXCEPT !.results = Put(@, head, res)]

\* let parents = graph[head] and the tests that follow it: "leaf" when
\* parents is falsy or has length 0, "parents" when it is an array to
\* linearize, "TypeError" when it is something that cannot be sliced,
\* reversed and mapped.
ParentsOf(graph, prototype, head) ==
  Let(ArrayTableGet(graph, prototype, head), LAMBDA found :
    CASE found.kind = "array" ->
           [kind |-> IF found.array = <<>> THEN "leaf" ELSE "parents",
            parents |-> found.array]
      [] found.kind = "undefined" -> [kind |-> "leaf", parents |-> <<>>]
      [] found.kind = "function" ->
           [kind |-> IF found.arity = 0 THEN "leaf" ELSE "TypeError", parents |-> <<>>]
      [] found.kind = "number" ->
           [kind |-> IF found.string = "0" THEN "leaf" ELSE "TypeError", parents |-> <<>>]
      [] OTHER -> [kind |-> "TypeError", parents |-> <<>>])

\* The end of _linearize for a head with parents: sub is the state after
\* the linearization of the parents and the sequences it gave; these are
\* merged together with the list of the parents itself.
linearized(head, parents, sub) ==
  Let(merge(Append(sub.sequences, parents)), LAMBDA m :
    IF sub.st.error # "" THEN [st |-> sub.st, res |-> <<>>]
    ELSE IF ~m.ok THEN [st |-> [sub.st EXCEPT !.error = "Error"], res |-> <<>>]
    ELSE [st |-> [SetResult(sub.st, head, <<head>> \o m.order)
                    EXCEPT !.visiting = @ \ {head}],
          res |-> <<head>> \o m.order])

\* names.map(x => _linearize(graph, x, results, visiting, options)), and in
\* it _linearize(graph, head, results, visiting, options): head followed by
\* the merge of the linearizations of its parents and the list of the
\* parents, taken in reverse order when options.reverse is set; it fails on a circular dependency, and where
\* a name meets a member of a prototype instead of an entry.  The result is
\* the state after the calls and the sequences they returned.
RECURSIVE linearizeEach(_, _, _, _, _)
linearizeEach(graph, prototype, names, st, reverse) ==
  IF names = <<>> \/ st.error # "" THEN [st |-> st, sequences |-> <<>>]
  ELSE
    Let(names[1], LAMBDA head :
    Let(ParentsOf(graph, prototype, head), LAMBDA found :
    Let([st EXCEPT !.visiting = @ \cup {head}], LAMBDA entered :
    Let(IF "hasOwnProperty" \in DOMAIN st.results
          THEN [st |-> [st EXCEPT !.error = "TypeError"], res |-> <<>>]
        ELSE IF head # "__proto__" /\ head \in DOMAIN st.results
          THEN [st |-> st, res |-> st.results[head]]
        ELSE IF head \in st.visiting
          THEN [st |-> [st EXCEPT !.error = "Error"], res |-> <<>>]
        ELSE IF found.kind = "leaf"
          THEN [st |-> SetResult(entered, head, <<head>>), res |-> <<head>>]
        ELSE IF found.kind = "TypeError"
          THEN [st |-> [entered EXCEPT !.error = "TypeError"], res |-> <<>>]
        ELSE Let(IF reverse THEN SeqReverse(found.parents) ELSE found.parents,
                 LAMBDA parents :
                   linearized(head, parents,
                              linearizeEach(graph, prototype, parents, entered, reverse))),
        LAMBDA first :
    Let(linearizeEach(graph, prototype, Tail(names), first.st, reverse), LAMBDA rest :
      [st |-> rest.st, sequences |-> <<first.res>> \o rest.sequences])))))

\* linearize(graph, options) for the object graph with the own properties
\* graph, in the order heads (Object.keys), and the given prototype: ok is
\* FALSE when the library throws, error is the name of what it throws.
linearize(graph, heads, prototype, reverse) ==
  Let(linearizeEach(graph, prototype, heads, NoResults, reverse).st, LAMBDA st :
    [ok |-> st.error = "", error |-> st.error, results |-> st.results,
     prototype |-> st.prototype])

\* The prototype of one of the tables.
PrototypeOf(tableName) ==
  IF tableName \in DOMAIN prototypes THEN <<prototypes[tableName]>> ELSE NoPrototype

\* Object.keys(dependencies): the declared contract names that are own
\* properties, in the order of their first declaration.
DependencyKeys ==
  Unique(SelectSeq(contractNames, LAMBDA c : c # "__proto__" /\ c \in DOMAIN dependencies))

\* Line 200.
Linearize ==
  /\ pc = "read"
  /\ fi > Len(files)
  /\ \E lin \in {linearize(dependencies, DependencyKeys, PrototypeOf("dependencies"),
                           TRUE)} :
         IF lin.ok
         THEN /\ pc' = "loop"
              /\ fi' = 1
              /\ dependencies' = lin.results
              /\ prototypes' =
                   IF lin.prototype = NoPrototype
                   THEN [t \in DOMAIN prototypes \ {"dependencies"} |-> prototypes[t]]
                   ELSE Put(prototypes, "dependencies", lin.prototype[1])
              /\ UNCHANGED exception
         ELSE /\ Throw(lin.error, 200)
              /\ UNCHANGED << fi, dependencies, prototypes >>
  /\ UNCHANGED << files, options, ev, content, fileASTs, userDefinedStateVars,
                  stateVars, functionsPerContract, eventsPerContract,
                  structsPerContract, contractUsingFor, contractNames,
                  customErrorNames, contractName, cluster, digraphVars, scopeVars,
                  stderr, lastCall >>


(***************************************************************************)
(* The graph builder (graphviz): clusters, nodes added to a cluster, edges *)
(* between node ids, lookups by id.                                        *)
(***************************************************************************)
\* digraph.getCluster(id): the cluster, undefined when there is none.
getCluster(id) == IF id \in clusters THEN id ELSE undefined

\* The root graph; a cluster is a graph of its own inside it.
digraph == "digraph"

\* digraph.getNode(id): is there a node with this id among the nodes of the
\* root graph itself; the nodes added to a cluster belong to the cluster.
getNode(id) == <<digraph, id>> \in nodes

\* digraph.addEdge(from, to): an end that names no node of the root graph is
\* added to the root graph as a node.
addEdgeNodes(from, to) == {<<digraph, from>>, <<digraph, to>>}

(***************************************************************************)
(* The second loop: per tree, node registration, then call resolution.     *)
(***************************************************************************)
SyntheticNames == {"<Fallback>", "<Receive Ether>", "<Constructor>"}

\* Line 210: dependencies.hasOwnProperty is called for every name but the
\* three synthetic ones; an entry of dependencies under the key
\* hasOwnProperty, an array, is what the call then finds, and it throws.
nodeNameThrows(functionName) ==
  functionName \notin SyntheticNames /\ "hasOwnProperty" \in DOMAIN dependencies

\* Lines 207-221: the id of the node of a member of a contract: the id
\* under the first contract of the linearization that has such a node,
\* else the id under the contract itself.
nodeName(functionName, contract) ==
  LET deps == IF functionName \notin SyntheticNames /\ contract \in DOMAIN dependencies
              THEN dependencies[contract] ELSE <<>>
      hits == {i \in 1..Len(deps) : getNode(deps[i] \o "." \o functionName)}
  IN  IF hits # {}
      THEN deps[CHOOSE i \in hits : \A j \in hits : i <= j] \o "." \o functionName
      ELSE contract \o "." \o functionName

\* Lines 223-236.
functionName(node) ==
  IF node.isConstructor THEN "<Constructor>"
  ELSE IF node.isFallback THEN "<Fallback>"
  ELSE IF node.isReceiveEther THEN "<Receive Ether>"
  ELSE node.name

\* Lines 202-206 and the start of the visit of line 238.
StartRegister ==
  /\ pc = "loop"
  /\ fi <= Len(fileASTs)
  /\ contractName' = "0_global"
  /\ cluster' = null
  /\ StepFrom("register", Parse(fileASTs[fi]), 0)
  /\ UNCHANGED << files, options, content, fileASTs, tableVars, digraphVars,
                  scopeVars, stderr, exception, lastCall >>

\* Lines 239-243.
RegisterContractDefinition ==
  /\ At("register", "ContractDefinition")
  /\ contractName' = Node.name
  /\ cluster' = getCluster(ClusterId(Node.name))
  /\ Continue("register")
  /\ UNCHANGED << files, options, content, fileASTs, tableVars, digraphVars,
                  scopeVars, stderr, exception, lastCall >>

\* Lines 245-247.
RegisterContractExit ==
  /\ At("register", "ContractDefinition:exit")
  /\ contractName' = "0_global"
  /\ Continue("register")
  /\ UNCHANGED << files, options, content, fileASTs, tableVars, cluster,
                  digraphVars, scopeVars, stderr, exception, lastCall >>

\* Lines 249-277.
RegisterFunctionDefinition ==
  /\ At("register", "FunctionDefinition")
  /\ IF cluster \in {null, undefined}
       THEN Continue("register") /\ UNCHANGED << nodes, exception >>
     ELSE IF nodeNameThrows(functionName(Node))
       THEN Throw("TypeError", 210) /\ UNCHANGED << nodes, ev, fi >>
     ELSE /\ nodes' = nodes \cup {<<cluster, nodeName(functionName(Node), contractName)>>}
          /\ Continue("register")
          /\ UNCHANGED exception
  /\ UNCHANGED << files, options, content, fileASTs, tableVars, contractName,
                  cluster, clusters, edges, scopeVars, stderr, lastCall >>

\* Lines 279-294; cluster.addNode on a missing cluster throws.
RegisterModifierDefinition ==
  /\ At("register", "ModifierDefinition")
  /\ IF cluster \in {null, undefined}
       THEN Throw("TypeError", 293) /\ UNCHANGED << nodes, ev, fi >>
     ELSE IF nodeNameThrows(Node.name)
       THEN Throw("TypeError", 210) /\ UNCHANGED << nodes, ev, fi >>
     ELSE /\ nodes' = nodes \cup {<<cluster, nodeName(Node.name, contractName)>>}
          /\ Continue("register")
          /\ UNCHANGED exception
  /\ UNCHANGED << files, options, content, fileASTs, tableVars, contractName,
                  cluster, clusters, edges, scopeVars, stderr, lastCall >>

\* Lines 297-302 and the start of the visit of line 304.
StartResolve ==
  /\ pc = "between"
  /\ callingScope' = null
  /\ userDefinedLocalVars' = EmptyMap
  /\ localVars' = EmptyMap
  /\ tempUserDefinedStateVars' = EmptyMap
  /\ tempStateVars' = EmptyMap
  /\ eventDefinitions' = <<>>
  /\ StepFrom("resolve", Parse(fileASTs[fi]), 0)
  /\ UNCHANGED << files, options, content, fileASTs, tableVars, contractName,
                  cluster, digraphVars, stderr, exception, lastCall >>

\* The own enumerable properties of a string: its characters by index.
StringEntries(str) ==
  [k \in {DecimalString(i) : i \in 0..(Len(str) - 1)} |->
     Ch(str, IndexOfKey(k, Len(str)) + 1)]

\* Object.assign(temp, tables[dep]): the own properties of an object or of a
\* string are copied; undefined and the members of Object.prototype give
\* nothing to copy.
AssignFrom(temp, tables, tableName, dep) ==
  Let(ObjectTableGet(tables, PrototypeOf(tableName), dep), LAMBDA source :
    CASE source.kind = "object" -> Assign(temp, source.object)
      [] source.kind = "string" -> Assign(temp, StringEntries(source.string))
      [] OTHER -> temp)

\* Lines 308-311: Object.assign of the tables of the contracts of deps, in
\* order, onto temp.
RECURSIVE AssignAll(_, _, _, _)
AssignAll(temp, tables, tableName, deps) ==
  IF deps = <<>> THEN temp
  ELSE AssignAll(AssignFrom(temp, tables, tableName, deps[1]), tables, tableName,
                 Tail(deps))

\* dependencies[c] as for...of and spread take it: iterable is FALSE when it
\* is neither an array nor a string.
IterableDependencies(c) ==
  Let(ArrayTableGet(dependencies, PrototypeOf("dependencies"), c), LAMBDA found :
    CASE found.kind = "array" -> [iterable |-> TRUE, deps |-> found.array]
      [] found.kind = "string" -> [iterable |-> TRUE, deps |-> CharsOf(found.string)]
      [] OTHER -> [iterable |-> FALSE, deps |-> <<>>])

\* Lines 305-315.
ResolveContractDefinition ==
  /\ At("resolve", "ContractDefinition")
  /\ contractName' = Node.name
  /\ \E found \in {IterableDependencies(Node.name)} :
         IF ~found.iterable
         THEN /\ Throw("TypeError", 308)
              /\ UNCHANGED << ev, fi, tempUserDefinedStateVars, tempStateVars >>
         ELSE /\ tempUserDefinedStateVars' =
                   AssignFrom(AssignAll(tempUserDefinedStateVars, userDefinedStateVars,
                                        "userDefinedStateVars", found.deps),
                              userDefinedStateVars, "userDefinedStateVars", Node.name)
              /\ tempStateVars' =
                   AssignFrom(AssignAll(tempStateVars, stateVars, "stateVars",
                                        found.deps),
                              stateVars, "stateVars", Node.name)
              /\ Continue("resolve")
              /\ UNCHANGED exception
  /\ UNCHANGED << files, options, content, fileASTs, tableVars, cluster,
                  digraphVars, callingScope, userDefinedLocalVars, localVars,
                  eventDefinitions, stderr, lastCall >>

\* Lines 317-319.
ResolveEventDefinition ==
  /\ At("resolve", "EventDefinition")
  /\ eventDefinitions' = Append(eventDefinitions, Node.name)
  /\ Continue("resolve")
  /\ UNCHANGED << files, options, content, fileASTs, tableVars, contractName,
                  cluster, digraphVars, callingScope, userDefinedLocalVars,
                  localVars, tempUserDefinedStateVars, tempStateVars, stderr, exception,
                  lastCall >>

\* Lines 321-325.
ResolveContractExit ==
  /\ At("resolve", "ContractDefinition:exit")
  /\ contractName' = "0_global"
  /\ tempUserDefinedStateVars' = EmptyMap
  /\ tempStateVars' = EmptyMap
  /\ Continue("resolve")
  /\ UNCHANGED << files, options, content, fileASTs, tableVars, cluster,
                  digraphVars, callingScope, userDefinedLocalVars, localVars,
                  eventDefinitions, stderr, exception, lastCall >>

\* Lines 327-331.
ResolveFunctionDefinition ==
  /\ At("resolve", "FunctionDefinition")
  /\ IF nodeNameThrows(functionName(Node))
     THEN Throw("TypeError", 210) /\ UNCHANGED << callingScope, ev, fi >>
     ELSE /\ callingScope' = nodeName(functionName(Node), contractName)
          /\ Continue("resolve")
          /\ UNCHANGED exception
  /\ UNCHANGED << files, options, content, fileASTs, tableVars, contractName,
                  cluster, digraphVars, userDefinedLocalVars, localVars,
                  tempUserDefinedStateVars, tempStateVars, eventDefinitions,
                  stderr, lastCall >>

\* Lines 333-337.
ResolveFunctionExit ==
  /\ At("resolve", "FunctionDefinition:exit")
  /\ callingScope' = null
  /\ userDefinedLocalVars' = EmptyMap
  /\ localVars' = EmptyMap
  /\ Continue("resolve")
  /\ UNCHANGED << files, options, content, fileASTs, tableVars, contractName,
                  cluster, digraphVars, tempUserDefinedStateVars, tempStateVars,
                  eventDefinitions, stderr, exception, lastCall >>

\* Lines 339-341.
ResolveModifierDefinition ==
  /\ At("resolve", "ModifierDefinition")
  /\ IF nodeNameThrows(Node.name)
     THEN Throw("TypeError", 210) /\ UNCHANGED << callingScope, ev, fi >>
     ELSE /\ callingScope' = nodeName(Node.name, contractName)
          /\ Continue("resolve")
          /\ UNCHANGED exception
  /\ UNCHANGED << files, options, content, fileASTs, tableVars, contractName,
                  cluster, digraphVars, userDefinedLocalVars, localVars,
                  tempUserDefinedStateVars, tempStateVars, eventDefinitions,
                  stderr, lastCall >>

\* Lines 343-345.
ResolveModifierExit ==
  /\ At("resolve", "ModifierDefinition:exit")
  /\ callingScope' = null
  /\ Continue("resolve")
  /\ UNCHANGED << files, options, content, fileASTs, tableVars, contractName,
                  cluster, digraphVars, userDefinedLocalVars, localVars,
                  tempUserDefinedStateVars, tempStateVars, eventDefinitions,
                  stderr, exception, lastCall >>

\* Lines 348-356: the tables of local variables after the parameters ps; a
\* parameter without name ends the loop.
RECURSIVE ParameterVars(_, _, _)
ParameterVars(ps, userDefined, elementary) ==
  IF ps = <<>> \/ ps[1].name = null
    THEN [userDefinedLocalVars |-> userDefined, localVars |-> elementary]
  ELSE IF isUserDefinedDeclaration(ps[1])
    THEN ParameterVars(Tail(ps),
           PutPrimitive(userDefined, ps[1].name, ps[1].typeName.namePath), elementary)
  ELSE IF callingScope # null
    THEN ParameterVars(Tail(ps), userDefined,
           PutPrimitive(elementary, ps[1].name, Get(ps[1].typeName, "name")))
  ELSE ParameterVars(Tail(ps), userDefined, elementary)

\* Lines 347-357.
ResolveParameterList ==
  /\ At("resolve", "ParameterList")
  /\ LET after == ParameterVars(Node.parameters, userDefinedLocalVars, localVars)
     IN  /\ userDefinedLocalVars' = after.userDefinedLocalVars
         /\ localVars' = after.localVars
  /\ Continue("resolve")
  /\ UNCHANGED << files, options, content, fileASTs, tableVars, contractName,
                  cluster, digraphVars, callingScope, tempUserDefinedStateVars,
                  tempStateVars, eventDefinitions, stderr, exception, lastCall >>

\* Lines 359-371.
ResolveVariableDeclaration ==
  /\ At("resolve", "VariableDeclaration")
  /\ IF callingScope = null \/ Node.name = null
       THEN UNCHANGED << userDefinedLocalVars, localVars >>
     ELSE IF isUserDefinedDeclaration(Node)
       THEN /\ userDefinedLocalVars' =
                 PutPrimitive(userDefinedLocalVars, Node.name, Node.typeName.namePath)
            /\ UNCHANGED localVars
     ELSE IF isElementaryTypeDeclaration(Node)
       THEN /\ localVars' = PutPrimitive(localVars, Node.name, Node.typeName.name)
            /\ UNCHANGED userDefinedLocalVars
     ELSE IF isArrayDeclaration(Node)
       THEN /\ localVars' =
                 PutPrimitive(localVars, Node.name,
                              Get(Node.typeName.baseTypeName, "namePath"))
            /\ UNCHANGED userDefinedLocalVars
     ELSE IF isMappingDeclaration(Node)
       THEN /\ localVars' =
                 PutPrimitive(localVars, Node.name, Get(Node.typeName.valueType, "name"))
            /\ UNCHANGED userDefinedLocalVars
     ELSE UNCHANGED << userDefinedLocalVars, localVars >>
  /\ Continue("resolve")
  /\ UNCHANGED << files, options, content, fileASTs, tableVars, contractName,
                  cluster, digraphVars, callingScope, tempUserDefinedStateVars,
                  tempStateVars, eventDefinitions, stderr, exception, lastCall >>

\* Lines 373-377.
ResolveModifierInvocation ==
  /\ At("resolve", "ModifierInvocation")
  /\ IF ~(options.enableModifierEdges /\ callingScope # null)
       THEN Continue("resolve") /\ UNCHANGED << edges, nodes, exception >>
     ELSE IF nodeNameThrows(Node.name)
       THEN Throw("TypeError", 210) /\ UNCHANGED << edges, nodes, ev, fi >>
     ELSE /\ edges' = Append(edges, [from |-> callingScope,
                                     to |-> nodeName(Node.name, contractName),
                                     color |-> "yellow"])
          /\ nodes' = nodes \cup addEdgeNodes(callingScope,
                                              nodeName(Node.name, contractName))
          /\ Continue("resolve")
          /\ UNCHANGED exception
  /\ UNCHANGED << files, options, content, fileASTs, tableVars, contractName,
                  cluster, clusters, scopeVars, stderr, lastCall >>


(***************************************************************************)
(* parserHelpers: predicates on call expressions.                          *)
(***************************************************************************)
isRegularFunctionCall(node, cNames, eventNames, structNames, errorNames) ==
  LET expr == node.expression
  IN  /\ expr.type = "Identifier"
      /\ ~SeqIncludes(cNames, expr.name)
      /\ ~SeqIncludes(eventNames, expr.name)
      /\ ~SeqIncludes(structNames, expr.name)
      /\ ~SeqIncludes(errorNames, expr.name)

isMemberAccess(node) == node.expression.type = "MemberAccess"

isMemberAccessOfAddress(node) ==
  LET expr == node.expression.expression
  IN  /\ expr.type = "FunctionCall"
      /\ "typeName" \in DOMAIN expr.expression
      /\ expr.expression.typeName.name = "address"

isAContractTypecast(node, cNames) ==
  LET expr == node.expression.expression
  IN  /\ expr.type = "FunctionCall"
      /\ "name" \in DOMAIN expr.expression
      /\ SeqIncludes(cNames, expr.expression.name)

SpecialObjects == {"block", "msg", "tx"}

isSpecialVariable(node) ==
  \/ node.type = "Identifier" /\ node.name = "now"
  \/ /\ node.type = "MemberAccess"
     /\ "name" \in DOMAIN node.expression
     /\ node.expression.name \in SpecialObjects

getSpecialVariableType(node) ==
  IF node.type = "Identifier" THEN "uint256"
  ELSE IF node.memberName \in {"sender", "coinbase", "origin"} THEN "address"
  ELSE IF node.memberName = "data" THEN "bytes"
  ELSE IF node.memberName = "sig" THEN "bytes4"
  ELSE "uint256"

isElementaryTypecast(node) ==
  /\ node.type = "FunctionCall"
  /\ node.expression.type = "TypeNameExpression"
  /\ node.expression.typeName.type = "ElementaryTypeName"

(***************************************************************************)
(* The FunctionCall handler of the resolution pass, lines 379-579.         *)
(***************************************************************************)
\* A Set used as a property key is converted to this string.
SetPropertyKey(set) == "[object Set]"

\* new Set(...libs): the constructor takes its first argument as the
\* iterable, so the members are the characters of the first library name.
SetOfSpread(libs) == IF libs = <<>> THEN <<>> ELSE Unique(CharsOf(libs[1]))

\* Lines 484 and 499 and 518: the contracts of q that declare a function
\* name.  functionsPerContract[contract] is tested for a name that has no
\* entry as well; where the name is that of a member of a prototype, the
\* member has no method includes and the filter throws.
RECURSIVE Declaring(_, _)
Declaring(q, name) ==
  IF q = <<>> THEN [throws |-> FALSE, contracts |-> <<>>]
  ELSE
    Let(ArrayTableGet(functionsPerContract, PrototypeOf("functionsPerContract"), q[1]),
        LAMBDA found :
    Let(Declaring(Tail(q), name), LAMBDA rest :
      IF found.kind \notin {"array", "string", "undefined"}
        THEN [throws |-> TRUE, contracts |-> <<>>]
      ELSE IF rest.throws THEN rest
      ELSE [throws |-> FALSE,
            contracts |->
              (IF \/ found.kind = "array" /\ SeqIncludes(found.array, name)
                  \/ found.kind = "string" /\ Includes(found.string, name)
               THEN <<q[1]>> ELSE <<>>) \o rest.contracts]))

\* Lines 396-401: per element of the concatenation its type and, as value,
\* the string or the string the element converts to.  concat adds the
\* elements of an array and, of anything else, the thing itself.
RECURSIVE ConcatPer(_, _, _)
ConcatPer(table, tableName, deps) ==
  IF deps = <<>> THEN <<>>
  ELSE
    Let(ArrayTableGet(table, PrototypeOf(tableName), deps[1]), LAMBDA found :
      (IF found.kind = "array"
       THEN [i \in 1..Len(found.array) |-> [type |-> "string", value |-> found.array[i]]]
       ELSE <<[type |-> found.kind, value |-> found.string]>>)
      \o ConcatPer(table, tableName, Tail(deps)))

\* The elements of a concatenation that are strings.
RECURSIVE StringsOf(_)
StringsOf(q) ==
  IF q = <<>> THEN <<>>
  ELSE (IF q[1].type = "string" THEN <<q[1].value>> ELSE <<>>) \o StringsOf(Tail(q))

\* Lines 421-428: the callee name of a member call on address(...).
AddressCallName(node) ==
  IF node.expression.memberName = "call"
  THEN IF Len(node.arguments) > 0
       THEN StripQuotes(Substring(content, node.arguments[1].range[1],
                                  node.arguments[1].range[2] + 1))
       ELSE "<Fallback>"
  ELSE node.expression.memberName

\* Lines 430-436: the object of a member call on address(arg).
AddressCallObject(node) ==
  LET arg == node.expression.expression.arguments[1]
  IN  IF "name" \in DOMAIN arg THEN arg.name
      ELSE IF arg.type = "NumberLiteral" THEN "address(" \o arg.number \o ")"
      ELSE StripQuotes(Substring(content, arg.range[1], arg.range[2] + 1))

\* Lines 412-441: name and object of a member call.
MemberCallName(node) ==
  IF "name" \in DOMAIN node.expression.expression THEN node.expression.memberName
  ELSE IF isMemberAccessOfAddress(node) THEN AddressCallName(node)
  ELSE node.expression.memberName

MemberCallObject(node) ==
  LET expr == node.expression
  IN  IF "name" \in DOMAIN expr.expression THEN expr.expression.name
      ELSE IF isMemberAccessOfAddress(node) THEN AddressCallObject(node)
      ELSE IF isAContractTypecast(node, contractNames) THEN expr.expression.expression.name
      ELSE null

\* Lines 455-463: the first of the tables of variables that has the object
\* as own property gives the type.  line is the line that throws, 0 when
\* none does: a variable named hasOwnProperty is what table.hasOwnProperty
\* finds, a string, and calling it throws.
RECURSIVE LookupVariable(_, _, _, _)
LookupVariable(tables, lines, object, i) ==
  IF i > Len(tables) THEN [line |-> 0, type |-> null]
  ELSE IF "hasOwnProperty" \in DOMAIN tables[i] THEN [line |-> lines[i], type |-> null]
  ELSE IF object \in DOMAIN tables[i] THEN [line |-> 0, type |-> tables[i][object]]
  ELSE LookupVariable(tables, lines, object, i + 1)

\* Lines 443-467: the declared type of the object, uint made uint256.
VariableType(node, object) ==
  Let(IF isSpecialVariable(node.expression.expression)
        THEN [line |-> 0, type |-> getSpecialVariableType(node.expression.expression)]
      ELSE IF isElementaryTypecast(node.expression.expression)
        THEN [line |-> 0, type |-> node.expression.expression.expression.typeName.name]
      ELSE LookupVariable(<< localVars, userDefinedLocalVars,
                             tempUserDefinedStateVars, tempStateVars >>,
                          << 455, 457, 459, 461 >>, object, 1),
      LAMBDA found :
        [line |-> found.line,
         type |-> IF found.type = "uint" THEN "uint256" ELSE found.type])

NoMatch == [line |-> 0, contracts |-> <<>>]

\* The outcome of the filter of line atLine.
Matching(q, name, atLine) ==
  Let(Declaring(q, name), LAMBDA declaring :
    [line |-> IF declaring.throws THEN atLine ELSE 0,
     contracts |-> declaring.contracts])

\* Lines 469-509: the libraries of the using-declarations of the current
\* contract that declare name; <<>> when the lookup is not entered.  line is
\* the line that throws, 0 when none does: with a contract named
\* hasOwnProperty, functionsPerContract.hasOwnProperty is the entry of that
\* contract, an array, and calling it throws.
UsingForMatches(variableType, name) ==
  LET usingFor == EntryOf(contractUsingFor, "contractUsingFor", contractName)
      shadowed == "hasOwnProperty" \in DOMAIN functionsPerContract
  IN  IF variableType # null
      THEN IF variableType \notin DOMAIN usingFor THEN NoMatch
           ELSE IF shadowed THEN [line |-> 473, contracts |-> <<>>]
           ELSE IF SetPropertyKey(usingFor[variableType]) \notin DOMAIN functionsPerContract
             THEN NoMatch
           ELSE LET withStar ==
                      /\ "*" \in DOMAIN usingFor
                      /\ SetPropertyKey(usingFor["*"]) \in DOMAIN functionsPerContract
                    defs == IF withStar
                            THEN SetOfSpread(usingFor[variableType] \o usingFor["*"])
                            ELSE SetOfSpread(usingFor[variableType])
                IN  Matching(defs, name, 484)
      ELSE IF "*" \notin DOMAIN usingFor THEN NoMatch
           ELSE IF shadowed THEN [line |-> 497, contracts |-> <<>>]
           ELSE IF SetPropertyKey(usingFor["*"]) \notin DOMAIN functionsPerContract
             THEN NoMatch
           ELSE Matching(usingFor["*"], name, 499)

NoEdge == [outcome |-> "return", name |-> "", contract |-> "", color |-> "", line |-> 0]

\* The handler throws a TypeError at the given line.
Throws(atLine) ==
  [outcome |-> "throw", name |-> "", contract |-> "", color |-> "", line |-> atLine]

Edge(name, contract, color) ==
  [outcome |-> "edge", name |-> name, contract |-> contract, color |-> color,
   line |-> 0]

\* Lines 525-531: the contract of a call on the object.  table[object] is
\* read for an object that is no variable as well: under the name of a
\* member of Object.prototype it gives that member, which the template of
\* line 539 converts to a string.
ObjectContract(object) ==
  IF object # "__proto__" /\ object \in DOMAIN tempUserDefinedStateVars
    THEN tempUserDefinedStateVars[object]
  ELSE IF InheritedOfObject(object).kind # "undefined"
    THEN InheritedOfObject(object).string
  ELSE IF object \in DOMAIN userDefinedLocalVars THEN userDefinedLocalVars[object]
  ELSE object

\* Line 518 and lines 520-524: a call on super.
SuperCallTarget(name) ==
  Let(IterableDependencies(contractName), LAMBDA supers :
  Let(Declaring(supers.deps, name), LAMBDA declaring :
    IF ~supers.iterable \/ declaring.throws THEN Throws(518)
    ELSE IF declaring.contracts # <<>>
      THEN Edge(name, declaring.contracts[1], "call.default")
    ELSE NoEdge))

\* Lines 411-535, a member call: outcome, callee name and target contract.
MemberCallTarget(node) ==
  IF /\ "name" \notin DOMAIN node.expression.expression
     /\ isMemberAccessOfAddress(node)
     /\ node.expression.expression.arguments = <<>>
  THEN Throws(430)
  ELSE
    Let(MemberCallName(node), LAMBDA name :
    Let(MemberCallObject(node), LAMBDA object0 :
    Let(VariableType(node, object0), LAMBDA variableType :
      IF variableType.line # 0 THEN Throws(variableType.line)
      ELSE
        Let(UsingForMatches(variableType.type, name), LAMBDA matching :
        Let(IF matching.contracts # <<>> THEN matching.contracts[1] ELSE object0,
            LAMBDA object :
          IF matching.line # 0 THEN Throws(matching.line)
          ELSE IF matching.contracts # <<>> /\ options.libraries THEN NoEdge
          ELSE IF object = null THEN NoEdge
          ELSE IF object = "this" THEN Edge(name, contractName, "call.this")
          ELSE IF object = "super" THEN SuperCallTarget(name)
          ELSE Edge(name, ObjectContract(object), "call.default"))))))

\* Lines 385-535: outcome, callee name and target contract of a call.  With
\* an entry hasOwnProperty in dependencies line 396 throws.
CallTarget(node) ==
  LET expr == node.expression
      deps == IF contractName \in DOMAIN dependencies
              THEN dependencies[contractName] ELSE <<>>
      eventsOfDependencies == ConcatPer(eventsPerContract, "eventsPerContract", deps)
      structsOfDependencies == ConcatPer(structsPerContract, "structsPerContract", deps)
  IN  IF "hasOwnProperty" \in DOMAIN dependencies THEN Throws(396)
      ELSE IF isRegularFunctionCall(node, contractNames, StringsOf(eventsOfDependencies),
                                    StringsOf(structsOfDependencies), customErrorNames)
        THEN Edge(expr.name, contractName, "call.regular")
      ELSE IF "name" \in DOMAIN expr /\ SeqIncludes(customErrorNames, expr.name)
        THEN Edge(expr.name, contractName, "call.error")
      ELSE IF isMemberAccess(node) THEN MemberCallTarget(node)
      ELSE NoEdge

\* Lines 379-579.
ResolveFunctionCall ==
  /\ At("resolve", "FunctionCall")
  /\ \E target \in {IF callingScope = null THEN NoEdge ELSE CallTarget(Node)} :
     \E externalCluster \in {ClusterId(target.contract)} :
     \E localNodeName \in {nodeName(target.name, target.contract)} :
         CASE target.outcome = "edge" ->
                /\ clusters' = clusters \cup {externalCluster}
                /\ nodes' = (IF getNode(localNodeName) THEN nodes
                             ELSE nodes \cup {<<externalCluster, localNodeName>>})
                            \cup addEdgeNodes(callingScope, localNodeName)
                /\ edges' = Append(edges, [from |-> callingScope, to |-> localNodeName,
                                           color |-> target.color])
                /\ lastCall' = [file |-> fileASTs[fi], node |-> ev, edge |-> TRUE,
                                from |-> callingScope, to |-> localNodeName,
                                contract |-> target.contract, name |-> target.name]
                /\ Continue("resolve")
                /\ UNCHANGED exception
           [] target.outcome = "return" ->
                /\ lastCall' = [NoCall EXCEPT !.file = fileASTs[fi], !.node = ev]
                /\ Continue("resolve")
                /\ UNCHANGED << digraphVars, exception >>
           [] target.outcome = "throw" ->
                /\ Throw("TypeError", target.line)
                /\ UNCHANGED << fi, ev, digraphVars, lastCall >>
  /\ UNCHANGED << files, options, content, fileASTs, tableVars, contractName,
                  cluster, scopeVars, stderr >>

\* Lines 583-621: all trees done, the graph is serialised.
GraphDone ==
  /\ pc = "loop"
  /\ fi > Len(fileASTs)
  /\ pc' = "done"
  /\ UNCHANGED << files, options, fi, ev, content, fileASTs, tableVars,
                  contractName, cluster, digraphVars, scopeVars, stderr, exception, lastCall >>

NextGraph ==
  \/ GraphStart
  \/ ReadFile
  \/ SkipDirectory
  \/ CollectContractDefinition
  \/ CollectContractExit
  \/ CollectStateVariableDeclaration
  \/ CollectFunctionDefinition
  \/ CollectCustomErrorDefinition
  \/ CollectEventDefinition
  \/ CollectStructDefinition
  \/ CollectUsingForDeclaration
  \/ Linearize
  \/ StartRegister
  \/ RegisterContractDefinition
  \/ RegisterContractExit
  \/ RegisterFunctionDefinition
  \/ RegisterModifierDefinition
  \/ StartResolve
  \/ ResolveContractDefinition
  \/ ResolveEventDefinition
  \/ ResolveContractExit
  \/ ResolveFunctionDefinition
  \/ ResolveFunctionExit
  \/ ResolveModifierDefinition
  \/ ResolveModifierExit
  \/ ResolveParameterList
  \/ ResolveVariableDeclaration
  \/ ResolveModifierInvocation
  \/ ResolveFunctionCall
  \/ GraphDone


(***************************************************************************)
(* importer.js: the file system it reads.                                  *)
(*                                                                         *)
(* The project root is /p.  The tree below is fixed; what varies is the    *)
(* remapping manifest /p/remappings.txt (present or not, and its lines)    *)
(* and the vendor directory /p/node_modules (present or not).              *)
(***************************************************************************)
VARIABLES
  fs,                    \* [hasManifest, manifest, hasVendor]
  seeds,                 \* the files argument of the outermost importProfiler call
  ipc,                   \* position of importProfiler: "run", "done" or "error"
  stack,                 \* per active importProfiler call, the entries still to loop over
  importedFiles,         \* the Set importedFiles, in insertion order
  returned,              \* what the outermost call returned
  thrown,                \* the message of the Error that ended the run
  reads,                 \* history: per path, how often it was read and parsed
  istderr,               \* lines written with console.error
  resolveIn,             \* resolveImportPath alone: its arguments
  resolveOut,            \* resolveImportPath alone: its result
  linIn,                 \* linearization alone: base names per declared contract
  linOut                 \* linearization alone: the result of linearize

importVars ==
  << fs, seeds, ipc, stack, importedFiles, returned, thrown, reads, istderr >>

resolveVars == << resolveIn, resolveOut >>

linVars == << linIn, linOut >>

projectDir == "/p"

FixedDirs ==
  {"/", "/p", "/p/sub", "/p/sub/deep", "/p/lib", "/p/lib/openzeppelin",
   "/p/lib/openzeppelin/token", "/p/d.sol", "/pq", "/o"}
VendorDirs == {"/p/node_modules", "/p/node_modules/nm"}

FixedFiles ==
  {"/p/a.sol", "/p/b.sol", "/p/c.sol", "/p/r.sol", "/p/s.sol", "/p/u.sol",
   "/p/v.sol", "/p/notes.txt", "/p/sub/d.sol", "/p/sub/n.sol",
   "/p/sub/deep/e.sol", "/p/lib/openzeppelin/token/ERC20.sol",
   "/pq/x.sol", "/o/y.sol"}
VendorFiles == {"/p/node_modules/nm/z.sol"}
ManifestPath == "/p/remappings.txt"

Dirs(f) == FixedDirs \cup (IF f.hasVendor THEN VendorDirs ELSE {})
Files(f) ==
  FixedFiles \cup (IF f.hasVendor THEN VendorFiles ELSE {})
             \cup (IF f.hasManifest THEN {ManifestPath} ELSE {})

\* The import directives of a source file, in order (node.path of each).
ImportsOf(file) ==
  CASE file = "/p/a.sol" -> <<"./b.sol", "./c.sol">>
    [] file = "/p/b.sol" -> <<"./c.sol">>
    [] file = "/p/c.sol" -> <<"./a.sol">>
    [] file = "/p/r.sol" -> <<"@oz/token/ERC20.sol">>
    [] file = "/p/s.sol" -> <<"./s.sol", "./b.sol", "./b.sol">>
    [] file = "/p/u.sol" -> <<"../pq/x.sol">>
    [] file = "/p/v.sol" -> <<"/o/y.sol">>
    [] file = "/p/sub/d.sol" -> <<"@oz/token/ERC20.sol">>
    [] file = "/p/sub/n.sol" -> <<"nm/z.sol">>
    [] file = "/p/sub/deep/e.sol" -> <<"@oz/token/ERC20.sol", "../d.sol">>
    [] OTHER -> <<>>

(***************************************************************************)
(* Node's path module (POSIX) and fs module.                               *)
(***************************************************************************)
\* The segments of a path with "", "." and ".." resolved.
RECURSIVE NormalSegments(_, _)
NormalSegments(segs, acc) ==
  IF segs = <<>> THEN acc
  ELSE IF segs[1] \in {"", "."} THEN NormalSegments(Tail(segs), acc)
  ELSE IF segs[1] = ".."
    THEN NormalSegments(Tail(segs), IF acc = <<>> THEN acc ELSE SubSeq(acc, 1, Len(acc) - 1))
  ELSE NormalSegments(Tail(segs), Append(acc, segs[1]))

\* path.resolve(from, to) for an absolute from: an absolute, normalised
\* path without trailing slash.
PathResolve(from, to) ==
  LET full == IF Substring(to, 0, 1) = "/" THEN to ELSE from \o "/" \o to
  IN  "/" \o JoinSeq(NormalSegments(Split(full, "/"), <<>>), "/")

\* path.join(a, b) for an absolute a: the arguments that are not empty are
\* joined with "/" and the result is normalised, a trailing slash is kept.
PathJoin(a, b) ==
  LET full == IF b = "" THEN a ELSE a \o "/" \o b
      norm == "/" \o JoinSeq(NormalSegments(Split(full, "/"), <<>>), "/")
  IN  IF EndsWith(full, "/") /\ norm # "/" THEN norm \o "/" ELSE norm

\* The 0-based index of the last "/" among the first n characters of an
\* absolute path.
LastSlash(p, n) ==
  LET slashes == {i \in 0..(n - 1) : Ch(p, i + 1) = "/"}
  IN  CHOOSE i \in slashes : \A j \in slashes : j <= i

\* path.dirname(p) for an absolute path without trailing slash.
PathDirname(p) ==
  LET i == LastSlash(p, Len(p)) IN IF i = 0 THEN "/" ELSE Substring(p, 0, i)

PathBasename(p) == Substring(p, LastSlash(p, Len(p)) + 1, Len(p))

\* A path as the file system sees it: a trailing slash is dropped.
Entry(p) == IF Len(p) > 1 /\ EndsWith(p, "/") THEN Substring(p, 0, Len(p) - 1) ELSE p

\* The code of the error of fs for a path that is neither a file nor a
\* directory: ENOTDIR when the path goes through a file, else ENOENT.
ReadErrorCode(f, file) ==
  IF \E i \in 1..(Len(file) - 1) :
       Ch(file, i + 1) = "/" /\ SubSeq(file, 1, i) \in Files(f)
  THEN "ENOTDIR" ELSE "ENOENT"

\* The code of the error fs.readdirSync(dir) throws, "" when dir is a
\* directory: ENOTDIR for a file, else as for a read.
ReaddirErrorCode(f, dir) ==
  IF Entry(dir) \in Dirs(f) THEN ""
  ELSE IF Entry(dir) \in Files(f) THEN "ENOTDIR"
  ELSE ReadErrorCode(f, Entry(dir))

\* fs.readdirSync(dir) for a directory: the names of its entries.
readdirSync(f, dir) ==
  {PathBasename(e) :
     e \in {x \in (Files(f) \cup Dirs(f)) \ {"/"} : PathDirname(x) = Entry(dir)}}

\* fs.existsSync(p) && fs.statSync(p).isFile()
IsFile(f, p) == Entry(p) \in Files(f) /\ (p = Entry(p))

\* The text of the manifest.
ManifestText(f) == JoinSeq(f.manifest, "\n")

(***************************************************************************)
(* resolveImportPath(baseFilePath, importedFilePath, projectDir),          *)
(* lines 70-147.                                                           *)
(***************************************************************************)
NoDirectoryFound ==
  "Import statement seems to be a Truffle \"node_modules remapping\" or Forge \"remappings.txt\", but no corresponding directory could be found."
MultipleAssignment == "Multiple assignment symbols found in remappings.txt."
NotAFile(p) == "Import path not resolved to a file: " \o p
InvalidImportPath(p) == "Invalid import path: " \o p

\* Lines 92-106: the upward walk.  depth is currentDirArray.length.  The
\* result is the directory that holds a manifest or a vendor directory, or
\* found = FALSE when the walk passes the project root (error "") or meets
\* a directory that readdirSync cannot list (error is the code it throws).
RECURSIVE UpwardWalk(_, _, _)
UpwardWalk(f, currentDir, depth) ==
  Let(ReaddirErrorCode(f, currentDir), LAMBDA code :
  Let(readdirSync(f, currentDir), LAMBDA currentDirContents :
    IF Len(Split(projectDir, "/")) > depth
      THEN [found |-> FALSE, dir |-> currentDir, error |-> ""]
    ELSE IF code # "" THEN [found |-> FALSE, dir |-> currentDir, error |-> code]
    ELSE IF "remappings.txt" \in currentDirContents \/ "node_modules" \in currentDirContents
      THEN [found |-> TRUE, dir |-> currentDir, error |-> ""]
    ELSE UpwardWalk(f, PathResolve(currentDir, ".."), depth - 1)))

\* Lines 114-127: the scan of the manifest lines from index idx on.
RECURSIVE ScanRemappings(_, _, _)
ScanRemappings(remappingsArray, idx, importBase) ==
  IF idx > Len(remappingsArray) THEN [error |-> FALSE, input |-> "", output |-> ""]
  ELSE LET remappingSplit == Split(remappingsArray[idx], "=")
       IN  IF Len(remappingSplit) > 2 THEN [error |-> TRUE, input |-> "", output |-> ""]
           ELSE IF Includes(remappingSplit[1], importBase)
             THEN [error |-> FALSE, input |-> remappingSplit[1],
                   output |-> IF Len(remappingSplit) > 1 THEN remappingSplit[2] ELSE undefined]
           ELSE ScanRemappings(remappingsArray, idx + 1, importBase)

\* Lines 79-137: a remapped import.
ResolveRemapped(f, baseDirPath, importedFilePath) ==
  Let(UpwardWalk(f, PathResolve(baseDirPath, ".."), Len(Split(baseDirPath, "/")) - 1),
      LAMBDA walk :
  Let(walk.dir, LAMBDA currentDir :
  Let("remappings.txt" \in readdirSync(f, currentDir), LAMBDA forgeRemappingsBool :
  Let(ScanRemappings(SplitLines(ManifestText(f)), 1, Split(importedFilePath, "/")[1]),
      LAMBDA scan :
    IF walk.error # "" THEN [ok |-> FALSE, path |-> "", error |-> walk.error]
    ELSE IF ~walk.found THEN [ok |-> FALSE, path |-> "", error |-> NoDirectoryFound]
    ELSE IF forgeRemappingsBool /\ scan.error
      THEN [ok |-> FALSE, path |-> "", error |-> MultipleAssignment]
    ELSE IF forgeRemappingsBool /\ scan.input # ""
      THEN [ok |-> TRUE, error |-> "",
            path |-> PathJoin(currentDir,
                              ReplaceFirst(importedFilePath, scan.input, scan.output))]
    ELSE [ok |-> TRUE, error |-> "",
          path |-> PathJoin(PathJoin(currentDir, "node_modules"), importedFilePath)]))))

\* Lines 70-147.
resolveImportPath(f, baseFilePath, importedFilePath) ==
  Let(PathDirname(baseFilePath), LAMBDA baseDirPath :
  Let(Substring(importedFilePath, 0, 1), LAMBDA first :
  Let(IF first = "." \/ first = "/"
        THEN [ok |-> TRUE, error |-> "", path |-> PathResolve(baseDirPath, importedFilePath)]
      ELSE ResolveRemapped(f, baseDirPath, importedFilePath),
      LAMBDA r :
    IF ~r.ok THEN r
    ELSE IF ~IsFile(f, r.path) THEN [ok |-> FALSE, path |-> "", error |-> NotAFile(r.path)]
    ELSE r)))


(***************************************************************************)
(* importProfiler(files, projectDir, importedFiles), lines 16-59.  The     *)
(* recursion is a stack: one entry per active call, holding the entries    *)
(* its for loop has not taken yet.                                         *)
(***************************************************************************)
Top == stack[Len(stack)]
Callers == SubSeq(stack, 1, Len(stack) - 1)

\* The inputs of importProfiler.
SeedPaths ==
  {"a.sol", "s.sol", "r.sol", "u.sol", "v.sol", "sub/d.sol", "sub/deep/e.sol",
   "sub/n.sol", "d.sol", "sub", "notes.txt", "../pq/x.sol", "/o/y.sol", "missing.sol",
   "a.sol/x.sol"}

OzLine == "@oz/=lib/openzeppelin/"
ManifestLines ==
  {OzLine, "a=b=c", "@x/=lib/x/", "", OzLine \o "\r", "@oz/=lib/$&openzeppelin/",
   "@oz/=lib/openzeppelin/$$", "@oz/token/ERC20.sol="}

AllPaths == Files([hasManifest |-> TRUE, manifest |-> <<>>, hasVendor |-> TRUE])
              \cup Dirs([hasManifest |-> TRUE, manifest |-> <<>>, hasVendor |-> TRUE])
              \cup {PathResolve(projectDir, q) : q \in SeedPaths}

ImportFileSystems ==
  {[hasManifest |-> TRUE, manifest |-> <<OzLine>>, hasVendor |-> TRUE],
   [hasManifest |-> TRUE, manifest |-> <<OzLine \o "\r", "">>, hasVendor |-> TRUE],
   [hasManifest |-> TRUE, manifest |-> <<OzLine>>, hasVendor |-> FALSE],
   [hasManifest |-> FALSE, manifest |-> <<>>, hasVendor |-> TRUE]}

\* Line 19, path.resolve(projectDir, file), over the paths the loop can
\* meet: the seeds and the paths of the file system.  A table, so that
\* each path is resolved once.
ResolvedPaths == [q \in SeedPaths \cup AllPaths |-> PathResolve(projectDir, q)]

\* Line 19.
CurrentFile == ResolvedPaths[Top[1]]

\* Line 20.
ValidPath(file) == IndexOf(file, projectDir) = 0 /\ EndsWith(file, ".sol")

\* Lines 47-52: the resolved imports of every file under every file system
\* of the model, in the order of the import directives.
ImportsTable ==
  [f \in ImportFileSystems |->
     [file \in AllPaths |->
        [i \in 1..Len(ImportsOf(file)) |-> resolveImportPath(f, file, ImportsOf(file)[i])]]]

\* Lines 47-52: the resolved imports of file, and those not yet imported.
ResolvedImports(file) == ImportsTable[fs][file]

\* NewFiles that stops at the first import that is not yet imported.
RECURSIVE NewFilesFirstOnly(_, _)
NewFilesFirstOnly(resolved, imported) ==
  IF resolved = <<>> THEN <<>>
  ELSE IF SeqIncludes(imported, resolved[1].path)
    THEN NewFilesFirstOnly(Tail(resolved), imported)
  ELSE <<resolved[1].path>>

RECURSIVE NewFiles(_, _)
NewFiles(resolved, imported) ==
  IF resolved = <<>> THEN <<>>
  ELSE (IF SeqIncludes(imported, resolved[1].path) THEN <<>> ELSE <<resolved[1].path>>)
         \o NewFiles(Tail(resolved), imported)

Iterating == ipc = "run" /\ stack # <<>> /\ Top # <<>>

\* The call on top returns value; the outermost call ends the run.
ReturnFromCall(kind) ==
  IF Len(stack) = 1
  THEN /\ ipc' = "done"
       /\ returned' = [kind |-> kind, files |-> importedFiles]
       /\ stack' = <<>>
  ELSE /\ stack' = Callers
       /\ UNCHANGED << ipc, returned >>

\* Lines 19-22: the path is refused.
ImportInvalidPath ==
  /\ Iterating
  /\ ~ValidPath(CurrentFile)
  /\ ipc' = "error"
  /\ thrown' = InvalidImportPath(CurrentFile)
  /\ UNCHANGED << fs, seeds, stack, importedFiles, returned, reads, istderr >>

\* Lines 24-32, readFileSync fails with something else than EISDIR.
ImportReadError ==
  /\ Iterating
  /\ ValidPath(CurrentFile)
  /\ CurrentFile \notin Files(fs) \cup Dirs(fs)
  /\ ipc' = "error"
  /\ thrown' = ReadErrorCode(fs, CurrentFile)
  /\ UNCHANGED << fs, seeds, stack, importedFiles, returned, reads, istderr >>

\* Lines 24-29, the path is a directory: the call returns importedFiles.
ImportSkipDirectory ==
  /\ Iterating
  /\ ValidPath(CurrentFile)
  /\ CurrentFile \in Dirs(fs)
  /\ istderr' = Append(istderr, "Skipping directory: " \o CurrentFile)
  /\ ReturnFromCall("Set")
  /\ UNCHANGED << fs, seeds, importedFiles, thrown, reads >>

\* Lines 34-52, an import of the file does not resolve: the file was
\* added and parsed, resolveImportPath throws.
ImportUnresolved ==
  /\ Iterating
  /\ ValidPath(CurrentFile)
  /\ CurrentFile \in Files(fs)
  /\ LET resolved == ResolvedImports(CurrentFile)
         failing == {i \in 1..Len(resolved) : ~resolved[i].ok}
     IN  /\ failing # {}
         /\ thrown' = resolved[CHOOSE i \in failing : \A j \in failing : i <= j].error
  /\ ipc' = "error"
  /\ importedFiles' = SetAdd(importedFiles, CurrentFile)
  /\ reads' = [reads EXCEPT ![CurrentFile] = @ + 1]
  /\ UNCHANGED << fs, seeds, stack, returned, istderr >>

\* Lines 17-54, a readable file whose imports resolve: it is added, parsed,
\* and importProfiler is called on its imports that are not yet imported.
ImportFile ==
  /\ Iterating
  /\ ValidPath(CurrentFile)
  /\ CurrentFile \in Files(fs)
  /\ LET resolved == ResolvedImports(CurrentFile)
     IN  /\ \A i \in 1..Len(resolved) : resolved[i].ok
         /\ importedFiles' = SetAdd(importedFiles, CurrentFile)
         /\ stack' = Append(Append(Callers, Tail(Top)),
                            NewFiles(resolved, SetAdd(importedFiles, CurrentFile)))
  /\ reads' = [reads EXCEPT ![CurrentFile] = @ + 1]
  /\ UNCHANGED << fs, seeds, ipc, returned, thrown, istderr >>

\* Lines 56-58: the loop is over, the call returns the array of the Set.
ImportReturn ==
  /\ ipc = "run"
  /\ stack # <<>>
  /\ Top = <<>>
  /\ ReturnFromCall("Array")
  /\ UNCHANGED << fs, seeds, importedFiles, thrown, reads, istderr >>

NextImport ==
  \/ ImportInvalidPath
  \/ ImportReadError
  \/ ImportSkipDirectory
  \/ ImportUnresolved
  \/ ImportFile
  \/ ImportReturn

InitImport ==
  /\ fs \in ImportFileSystems
  /\ seeds \in SeqsUpTo(SeedPaths, MaxSeeds)
  /\ ipc = "run"
  /\ stack = <<seeds>>
  /\ importedFiles = <<>>
  /\ returned = [kind |-> "none", files |-> <<>>]
  /\ thrown = ""
  /\ reads = [q \in AllPaths |-> 0]
  /\ istderr = <<>>

(***************************************************************************)
(* resolveImportPath and linearize on their own.                           *)
(***************************************************************************)
ResolveFileSystems ==
  {[hasManifest |-> TRUE, manifest |-> m, hasVendor |-> v] :
     m \in SeqsUpTo(ManifestLines, MaxLines), v \in BOOLEAN}
  \cup {[hasManifest |-> FALSE, manifest |-> <<>>, hasVendor |-> v] : v \in BOOLEAN}

ImportingFiles ==
  {"/p/r.sol", "/p/a.sol", "/p/sub/d.sol", "/p/sub/n.sol", "/p/sub/deep/e.sol"}

ImportPaths ==
  {"@oz/token/ERC20.sol", "nm/z.sol", "./b.sol", "../d.sol", "/o/y.sol", "./lib"}

NoResult == [ok |-> FALSE, path |-> "", error |-> "not called"]

InitResolve ==
  /\ resolveIn \in [fs : ResolveFileSystems, baseFilePath : ImportingFiles,
                    importedFilePath : ImportPaths]
  /\ resolveOut = NoResult

ApplyResolveImportPath ==
  /\ resolveOut = NoResult
  /\ resolveOut' = resolveImportPath(resolveIn.fs, resolveIn.baseFilePath,
                                     resolveIn.importedFilePath)
  /\ UNCHANGED resolveIn

ContractIds == {"A", "B", "C"}
\* The declared contracts in the order of their declaration.
DeclaredIds == <<"A", "B", "C">>
BaseIds == {"A", "B", "C", "X"}

\* Base lists: sequences of distinct names.
BaseLists == {q \in SeqsUpTo(BaseIds, MaxBases) : Cardinality(Range(q)) = Len(q)}

NoOrder == [ok |-> FALSE, results |-> EmptyMap, called |-> FALSE]

InitLin ==
  /\ linIn \in [ContractIds -> BaseLists]
  /\ linOut = NoOrder

\* Lines 141-145 per declared contract, then line 200.
ApplyLinearize ==
  /\ ~linOut.called
  /\ \E lin \in {linearize([c \in DOMAIN linIn |-> DependenciesOf(linIn[c])],
                           DeclaredIds, NoPrototype, TRUE)} :
         linOut' = [ok |-> lin.ok, results |-> lin.results, called |-> TRUE]
  /\ UNCHANGED linIn

(***************************************************************************)
(* Specifications.                                                         *)
(***************************************************************************)
vars == << graphVars, importVars, resolveVars, linVars >>

IdleGraph ==
  /\ pc = "idle"
  /\ files = <<>>
  /\ options = [libraries |-> FALSE, enableModifierEdges |-> FALSE]
  /\ fi = 0
  /\ ev = 0
  /\ content = undefined
  /\ fileASTs = <<>>
  /\ userDefinedStateVars = EmptyMap
  /\ stateVars = EmptyMap
  /\ dependencies = EmptyMap
  /\ functionsPerContract = EmptyMap
  /\ eventsPerContract = EmptyMap
  /\ structsPerContract = EmptyMap
  /\ contractUsingFor = EmptyMap
  /\ contractNames = <<>>
  /\ customErrorNames = <<>>
  /\ prototypes = EmptyMap
  /\ contractName = undefined
  /\ cluster = undefined
  /\ clusters = {}
  /\ nodes = {}
  /\ edges = <<>>
  /\ callingScope = undefined
  /\ userDefinedLocalVars = EmptyMap
  /\ localVars = EmptyMap
  /\ tempUserDefinedStateVars = EmptyMap
  /\ tempStateVars = EmptyMap
  /\ eventDefinitions = <<>>
  /\ stderr = <<>>
  /\ exception = NoException
  /\ lastCall = NoCall

IdleImport ==
  /\ fs = [hasManifest |-> FALSE, manifest |-> <<>>, hasVendor |-> FALSE]
  /\ seeds = <<>>
  /\ ipc = "idle"
  /\ stack = <<>>
  /\ importedFiles = <<>>
  /\ returned = [kind |-> "none", files |-> <<>>]
  /\ thrown = ""
  /\ reads = EmptyMap
  /\ istderr = <<>>

IdleResolve ==
  /\ resolveIn = [fs |-> [hasManifest |-> FALSE, manifest |-> <<>>, hasVendor |-> FALSE],
                  baseFilePath |-> "", importedFilePath |-> ""]
  /\ resolveOut = [ok |-> FALSE, path |-> "", error |-> "idle"]

IdleLin ==
  /\ linIn = EmptyMap
  /\ linOut = [ok |-> FALSE, results |-> EmptyMap, called |-> TRUE]

\* graph(files, options) without import expansion.
Init == InitGraph /\ IdleImport /\ IdleResolve /\ IdleLin
Next == NextGraph /\ UNCHANGED << importVars, resolveVars, linVars >>
Spec == Init /\ [][Next]_vars

\* importProfiler(seeds, projectDir).
InitImporter == IdleGraph /\ InitImport /\ IdleResolve /\ IdleLin
NextImporter == NextImport /\ UNCHANGED << graphVars, resolveVars, linVars >>
SpecImporter == InitImporter /\ [][NextImporter]_vars

\* importProfiler is synchronous code: a call that can take a step takes it.
SpecImporterFair == SpecImporter /\ WF_vars(NextImporter)

\* resolveImportPath(baseFilePath, importedFilePath, projectDir).
InitResolver == IdleGraph /\ IdleImport /\ InitResolve /\ IdleLin
NextResolver == ApplyResolveImportPath /\ UNCHANGED << graphVars, importVars, linVars >>
SpecResolver == InitResolver /\ [][NextResolver]_vars

\* linearize(dependencies, {reverse: true}).
InitLinearizer == IdleGraph /\ IdleImport /\ IdleResolve /\ InitLin
NextLinearizer == ApplyLinearize /\ UNCHANGED << graphVars, importVars, resolveVars >>
SpecLinearizer == InitLinearizer /\ [][NextLinearizer]_vars


(***************************************************************************)
(* Properties.                                                             *)
(***************************************************************************)
\* The syntax node of the call lastCall is about.
CallSite == Parse(lastCall.file)[lastCall.node]

Declares(c, m) == c \in DOMAIN functionsPerContract /\ SeqIncludes(functionsPerContract[c], m)

\* Some graph, the root or a cluster, holds a node with this id.
HasNode(id) == \E n \in nodes : n[2] = id

\* b is the first contract after c in the linearization of c that declares m.
NearestDeclaringAncestor(c, b, m) ==
  /\ c \in DOMAIN dependencies
  /\ \E i \in 2..Len(dependencies[c]) :
       /\ dependencies[c][i] = b
       /\ Declares(b, m)
       /\ \A j \in 2..(i - 1) : ~Declares(dependencies[c][j], m)

\* C1: an unqualified call m() inside contract c, where c does not declare
\* m and its base b does, emits an edge to the node b.m, and there is no
\* node c.m, whatever the order of the input files and of the declarations.
C1_InheritedCallTargetsBase ==
  \A c \in DOMAIN functionsPerContract \ {"0_global"} :
    \A b \in DOMAIN functionsPerContract \ {"0_global"} :
      ( /\ lastCall.node > 0
        /\ CallSite.expression.type = "Identifier"
        /\ pc \in {"resolve", "loop", "register", "between", "done"}
        /\ contractName = c
        /\ CallSite.expression.name = lastCall.name
        /\ lastCall.contract = c
        /\ ~Declares(c, lastCall.name)
        /\ NearestDeclaringAncestor(c, b, lastCall.name) )
      => ( /\ lastCall.edge
           /\ lastCall.to = b \o "." \o lastCall.name
           /\ ~HasNode(c \o "." \o lastCall.name) )

IsSuperCall(node) ==
  /\ node.expression.type = "MemberAccess"
  /\ "name" \in DOMAIN node.expression.expression
  /\ node.expression.expression.name = "super"

\* C2: with A declaring f, B is A declaring f and C is B, the call
\* super.f() in C.g emits an edge from C.g to the node B.f.
C2_SuperCallTargetsNearest ==
  ( /\ lastCall.node > 0
    /\ IsSuperCall(CallSite)
    /\ CallSite.expression.memberName = "f"
    /\ lastCall.from = "C.g"
    /\ Declares("A", "f") /\ Declares("B", "f") /\ ~Declares("C", "f")
    /\ dependencies["C"] = <<"C", "B", "A", "0_global">> )
  => lastCall.to = "B.f"

\* C3: with library L declaring m and using L for uint256 in the current
\* contract, library re-targeting not suppressed, a member call a.m(...) on a
\* local a of elementary type uint256 or uint emits an edge to the node L.m.
C3_UsingForDispatch ==
  \A lib \in DOMAIN functionsPerContract :
    ( /\ lastCall.node > 0
      /\ pc = "resolve"
      /\ ~options.libraries
      /\ CallSite.expression.type = "MemberAccess"
      /\ "name" \in DOMAIN CallSite.expression.expression
      /\ CallSite.expression.expression.name \in DOMAIN localVars
      /\ localVars[CallSite.expression.expression.name] \in {"uint256", "uint"}
      /\ contractName \in DOMAIN contractUsingFor
      /\ "uint256" \in DOMAIN contractUsingFor[contractName]
      /\ contractUsingFor[contractName]["uint256"] = <<lib>>
      /\ Declares(lib, CallSite.expression.memberName) )
    => ( /\ lastCall.edge
         /\ lastCall.to = lib \o "." \o CallSite.expression.memberName )

IsAddressCallWithArgument(node) ==
  /\ node.expression.type = "MemberAccess"
  /\ node.expression.memberName = "call"
  /\ "name" \notin DOMAIN node.expression.expression
  /\ isMemberAccessOfAddress(node)
  /\ Len(node.arguments) > 0

\* The text of the first argument of a call of file, quotes stripped.
OwnArgumentText(file, node) ==
  StripQuotes(SubSeq(SourceText(file), node.arguments[1].range[1] + 1,
                     node.arguments[1].range[2] + 1))

\* C4: address(x).call("sig") emits an edge whose target is named after the
\* literal text of the call's own first argument, quotes stripped, in the
\* cluster of x's user-defined type when x is a known variable of such a
\* type, else in the cluster named x, wherever the file is in the input.
C4_LowLevelCallName ==
  ( /\ lastCall.node > 0
    /\ pc = "resolve"
    /\ IsAddressCallWithArgument(CallSite) )
  => LET x == AddressCallObject(CallSite)
         owner == IF x \in DOMAIN tempUserDefinedStateVars THEN tempUserDefinedStateVars[x]
                  ELSE IF x \in DOMAIN userDefinedLocalVars THEN userDefinedLocalVars[x]
                  ELSE x
     IN  /\ lastCall.edge
         /\ lastCall.name = OwnArgumentText(lastCall.file, CallSite)
         /\ lastCall.contract = owner
         /\ lastCall.to = owner \o "." \o OwnArgumentText(lastCall.file, CallSite)

\* The project root is an ancestor directory of path p.
InsideRoot(p) == SubSeq(p, 1, Len(projectDir) + 1) = projectDir \o "/"

\* C5: only paths inside the project root that end with .sol are accepted;
\* every other path is never added to the imported files.
C5_ProjectRootBoundary ==
  \A i \in 1..Len(importedFiles) :
    InsideRoot(importedFiles[i]) /\ EndsWith(importedFiles[i], ".sol")

\* C6: a directory in the input list is skipped without a fatal error, and
\* every entry after it is still processed and is part of the result.
C6_DirectorySkipContinues ==
  /\ ipc = "error" =>
       \A i \in 1..Len(seeds) :
         PathResolve(projectDir, seeds[i]) \in Dirs(fs)
           => thrown # InvalidImportPath(PathResolve(projectDir, seeds[i]))
  /\ ipc = "done" =>
       \A i \in 1..Len(seeds) :
         PathResolve(projectDir, seeds[i]) \in Files(fs)
           => SeqIncludes(returned.files, PathResolve(projectDir, seeds[i]))

IsRemapped(importedFilePath) ==
  Substring(importedFilePath, 0, 1) \notin {".", "/"}

\* The upward walk from the importing file ends at the manifest.
ReachesManifest(in) ==
  LET walk == UpwardWalk(in.fs, PathResolve(PathDirname(in.baseFilePath), ".."),
                         Len(Split(PathDirname(in.baseFilePath), "/")) - 1)
  IN  walk.found /\ "remappings.txt" \in readdirSync(in.fs, walk.dir)

\* C7: resolving a remapped import through a manifest fails with the
\* multiple-assignment error when any line of the manifest has more than
\* one '=', wherever that line is.
C7_AmbiguousRemapping ==
  ( /\ resolveOut # NoResult
    /\ IsRemapped(resolveIn.importedFilePath)
    /\ ReachesManifest(resolveIn)
    /\ \E i \in 1..Len(resolveIn.fs.manifest) :
         Len(Split(resolveIn.fs.manifest[i], "=")) > 2 )
  => (~resolveOut.ok /\ resolveOut.error = MultipleAssignment)

\* C8: with the manifest line @oz/=lib/openzeppelin/ at the project root and
\* no vendor directory, @oz/token/ERC20.sol imported from any file inside the
\* root resolves to <root>/lib/openzeppelin/token/ERC20.sol.
C8_RemappingExample ==
  ( /\ resolveOut # NoResult
    /\ resolveIn.fs.hasManifest
    /\ resolveIn.fs.manifest = <<OzLine>>
    /\ ~resolveIn.fs.hasVendor
    /\ resolveIn.importedFilePath = "@oz/token/ERC20.sol"
    /\ InsideRoot(resolveIn.baseFilePath) )
  => ( /\ resolveOut.ok
       /\ resolveOut.path = projectDir \o "/lib/openzeppelin/token/ERC20.sol" )

\* The names reachable from c through the base lists.
RECURSIVE AncestorsWithin(_, _, _)
AncestorsWithin(bases, S, n) ==
  IF n = 0 THEN S
  ELSE AncestorsWithin(bases,
         S \cup UNION {Range(bases[x]) : x \in S \cap DOMAIN bases}, n - 1)

Ancestors(bases, c) == AncestorsWithin(bases, Range(bases[c]), Cardinality(BaseIds))

NoDuplicates(q) == \A i, j \in 1..Len(q) : q[i] = q[j] => i = j

\* C9: in a consistent hierarchy the order computed for a declared contract
\* starts with the contract, ends with 0_global, and holds the contract, each
\* of its ancestors and 0_global exactly once.
C9_LinearizationShape ==
  (linOut.called /\ linOut.ok) =>
    \A c \in DOMAIN linIn :
      LET order == linOut.results[c]
      IN  /\ order[1] = c
          /\ order[Len(order)] = "0_global"
          /\ NoDuplicates(order)
          /\ Range(order) = {c} \cup Ancestors(linIn, c) \cup {"0_global"}

\* C9 witness: contract C is X, A with A declared and X not: the order of C
\* is C, A, X, 0_global.
C9_Witness ==
  /\ linOut.called
  /\ linOut.ok
  /\ linIn["C"] = <<"X", "A">>
  /\ linIn["A"] = <<>>
  /\ linOut.results["C"] = <<"C", "A", "X", "0_global">>

\* C10: during one call of importProfiler every file is read and parsed at
\* most once, and the returned list holds each path at most once.
C10_EachFileOnce ==
  /\ \A q \in DOMAIN reads : reads[q] <= 1
  /\ NoDuplicates(returned.files)

\* C11: the exit hook of a function declaration and the exit hook of a
\* modifier declaration leave the calling scope null and both tables of
\* local variables empty.
C11_ScopeDiscardedOnExit ==
  [][ (ResolveFunctionExit \/ ResolveModifierExit)
      => ( /\ callingScope' = null
           /\ localVars' = EmptyMap
           /\ userDefinedLocalVars' = EmptyMap ) ]_vars

NoBinding == [kind |-> "none", type |-> ""]

\* The binding of name o in the tables of contract c: user-defined or
\* elementary state variable.
StateBinding(c, o) ==
  IF c \in DOMAIN userDefinedStateVars /\ o \in DOMAIN userDefinedStateVars[c]
    THEN [kind |-> "userDefined", type |-> userDefinedStateVars[c][o]]
  ELSE IF c \in DOMAIN stateVars /\ o \in DOMAIN stateVars[c]
    THEN [kind |-> "elementary", type |-> stateVars[c][o]]
  ELSE NoBinding

\* The binding of o in the nearest ancestor of the current contract that
\* has one.
InheritedBinding(o) ==
  LET deps == IF contractName \in DOMAIN dependencies
              THEN dependencies[contractName] ELSE <<>>
      hits == {i \in 2..Len(deps) : StateBinding(deps[i], o) # NoBinding}
  IN  IF hits = {} THEN NoBinding
      ELSE StateBinding(deps[CHOOSE i \in hits : \A j \in hits : i <= j], o)

\* The binding of o by precedence: local, own state variable, inherited
\* state variable.
BindingOf(o) ==
  IF o \in DOMAIN userDefinedLocalVars
    THEN [kind |-> "userDefined", type |-> userDefinedLocalVars[o]]
  ELSE IF o \in DOMAIN localVars
    THEN [kind |-> "elementary", type |-> localVars[o]]
  ELSE IF StateBinding(contractName, o) # NoBinding THEN StateBinding(contractName, o)
  ELSE InheritedBinding(o)

\* C12: a member call o.m() on a name o is resolved with the binding of o
\* that has precedence (local, else own state variable, else inherited state
\* variable): the edge goes to the contract of that binding when it is
\* user-defined, and is never redirected by a binding of lower precedence.
C12_ShadowingPrecedence ==
  ( /\ lastCall.node > 0
    /\ pc = "resolve"
    /\ lastCall.edge
    /\ CallSite.expression.type = "MemberAccess"
    /\ "name" \in DOMAIN CallSite.expression.expression
    /\ CallSite.expression.expression.name \notin {"this", "super"}
    /\ ~(\E o \in DOMAIN localVars : o \in DOMAIN userDefinedLocalVars) )
  => LET o == CallSite.expression.expression.name
         binding == BindingOf(o)
     IN  lastCall.contract = IF binding.kind = "userDefined" THEN binding.type ELSE o

\* The contract part of a qualified node name <contract>.<member>.
ContractOf(id) == Substring(id, 0, IndexOf(id, "."))

\* The clusters that hold a node with this id.
ClustersOf(id) == {n[1] : n \in {k \in nodes : k[2] = id /\ k[1] # digraph}}

\* C13: after a run every node of the graph, the ends of the edges
\* included, is in exactly one cluster, the cluster of the contract named in
\* the qualified name of the node.
C13_ClusterMembership ==
  pc = "done" =>
    \A id \in {n[2] : n \in nodes} \cup {edges[i].from : i \in 1..Len(edges)}
               \cup {edges[i].to : i \in 1..Len(edges)} :
      ClustersOf(id) = {ClusterId(ContractOf(id))}

\* The contract whose body holds the call lastCall is about.
CallerContract ==
  LET ast == Parse(lastCall.file)
      opened == {j \in 1..lastCall.node : ast[j].type = "ContractDefinition"}
  IN  ast[CHOOSE j \in opened : \A k \in opened : k <= j].name

\* C14: a call super.m() inside contract c is resolved among the ancestors
\* of c only: an edge goes to the nearest ancestor that declares m, never to
\* c itself, and there is no edge when no ancestor declares m.
C14_SuperExcludesCaller ==
  ( /\ lastCall.node > 0
    /\ IsSuperCall(CallSite) )
  => LET c == CallerContract
         m == CallSite.expression.memberName
     IN  /\ lastCall.edge =>
               /\ lastCall.contract # c
               /\ NearestDeclaringAncestor(c, lastCall.contract, m)
         /\ (~\E b \in DOMAIN functionsPerContract : NearestDeclaringAncestor(c, b, m))
               => ~lastCall.edge

\* Node i of a tree is outside every contract body.
AtFileLevel(ast, i) ==
  Cardinality({j \in 1..(i - 1) : ast[j].type = "ContractDefinition"})
    = Cardinality({j \in 1..(i - 1) : ast[j].type = "ContractDefinition:exit"})

\* The file-level declarations of a type in a file.
FileLevel(file, nodeType) ==
  LET ast == Parse(file)
  IN  {ast[i] : i \in {j \in 1..Len(ast) : ast[j].type = nodeType /\ AtFileLevel(ast, j)}}

\* C15: once every file is collected, the tables of 0_global hold the
\* file-level functions, custom errors, structs and using-declarations of
\* every input file.
C15_CollectionMonotonic ==
  pc \in {"loop", "register", "between", "resolve", "done"} =>
    \A k \in 1..Len(fileASTs) :
      /\ \A d \in FileLevel(fileASTs[k], "FunctionDefinition") :
           SeqIncludes(functionsPerContract["0_global"], d.name)
      /\ \A d \in FileLevel(fileASTs[k], "CustomErrorDefinition") :
           /\ SeqIncludes(functionsPerContract["0_global"], d.name)
           /\ SeqIncludes(customErrorNames, d.name)
      /\ \A d \in FileLevel(fileASTs[k], "StructDefinition") :
           SeqIncludes(structsPerContract["0_global"], d.name)
      /\ \A d \in FileLevel(fileASTs[k], "UsingForDeclaration") :
           /\ UsingForTypeName(d) \in DOMAIN contractUsingFor["0_global"]
           /\ SeqIncludes(contractUsingFor["0_global"][UsingForTypeName(d)],
                          d.libraryName)

\* The files that the import directives of the files of S lead to.
ImportedBy(S) ==
  UNION { {r.path : r \in {q \in Range(ResolvedImports(file)) : q.ok}} :
          file \in S \cap Files(fs) }

\* The files reachable from S through import directives.
RECURSIVE ReachableFrom(_)
ReachableFrom(S) ==
  IF ImportedBy(S) \subseteq S THEN S ELSE ReachableFrom(S \cup ImportedBy(S))

Reachable == ReachableFrom({PathResolve(projectDir, seeds[i]) : i \in 1..Len(seeds)})

\* Every file reachable from the seeds is a source file inside the project
\* root and each of its imports resolves.
ImportsAllResolve ==
  \A file \in Reachable :
    /\ file \in Files(fs)
    /\ InsideRoot(file) /\ EndsWith(file, ".sol")
    /\ \A r \in Range(ResolvedImports(file)) : r.ok

\* importProfiler has returned, as an array without duplicates, exactly the
\* files reachable from the seeds.
ClosureReturned ==
  /\ ipc = "done"
  /\ returned.kind = "Array"
  /\ Range(returned.files) = Reachable
  /\ NoDuplicates(returned.files)

\* C16: when the seeds and everything they import are source files under
\* the project root whose imports all resolve, importProfiler terminates and
\* returns exactly the files reachable from the seeds, whatever cycles,
\* self-imports and repeated imports there are.
C16_ImportClosureTerminates == ImportsAllResolve => <>ClosureReturned

\* The seeds are source files of the project, and every import of every
\* reachable file resolves to a source file, under the project root or not.
ImportsResolveAnywhere ==
  /\ \A i \in 1..Len(seeds) : InsideRoot(PathResolve(projectDir, seeds[i]))
  /\ \A file \in Reachable :
       /\ file \in Files(fs)
       /\ EndsWith(file, ".sol")
       /\ \A r \in Range(ResolvedImports(file)) : r.ok

\* C16 as stated: whenever the imports all resolve, importProfiler terminates
\* and returns exactly the reachable files.
C16_AsStated == ImportsResolveAnywhere => <>ClosureReturned

\* C16 witness: the run from s.sol (which imports itself, and b.sol twice)
\* through the cycle a.sol -> b.sol -> c.sol -> a.sol has returned.
C16_Witness ==
  /\ ipc = "done"
  /\ ImportsAllResolve
  /\ seeds = <<"s.sol">>
  /\ returned.files = <<"/p/s.sol", "/p/b.sol", "/p/c.sol", "/p/a.sol">>

====
